---- MODULE Spec2Model ----
\* Verification model of apify-actor-secgov (SEC 13F scraper).
\*
\*   SpecSeries : the offline time-series pass extractValueDeltaFromFilings
\*                (src/src/actors/sec13f/validation.ts)
\*   Spec       : the online per-filing document assembly of the crawler routes
\*                (src/unnamed/part_000, router section)
EXTENDS Integers, Sequences, FiniteSets, TLC

\* ---------------------------------------------------------------------------
\* Bounds
\* ---------------------------------------------------------------------------
\* report dates are the ISO strings written by extractFiling; they are modelled
\* by the integers 1..MaxDate, whose order is the code-unit order of the strings
MaxDate == 4
\* filings rows of a dataset in which every filing has its own report date
MaxFilings == 4
\* filings rows / report dates / holdings rows of a dataset with repeated report
\* dates, several groups and several rows per group and date
MaxDupFilings == 2
MaxDupDate == 2
MaxRows == 2
\* hyperlinks on the directory pages of all filings of one crawl together
MaxLinks == 2
\* retries of one request after a failed attempt (maxRequestRetries of the crawler)
MaxRetries == 1
\* whole records of one file number in the dataset that is consolidated
MaxVersions == 2
\* data lines of the index file
MaxLines == 2
\* entries of the feed, entries asked for in a page, and pages asked for
MaxFeed == 3
MaxPerPage == 2
MaxMaxPages == 2

\* rows of a holdings table
MaxHoldings == 2
\* millions of characters of a serialised entry, and parts it is written in
MaxMillions == 30
MaxParts == 12

\* ---------------------------------------------------------------------------
\* JavaScript values seen by the walk: CSV cells are strings (papaparse without
\* dynamicTyping), literals and results of arithmetic are numbers.
\* A string is modelled by its sequence of decimal digits.
\* ---------------------------------------------------------------------------
Str(s) == [t |-> "str", s |-> s]
Num(n) == [t |-> "num", n |-> n]

RECURSIVE DigitsToNumber(_)
DigitsToNumber(s) ==
    IF s = <<>> THEN 0
    ELSE 10 * DigitsToNumber(SubSeq(s, 1, Len(s) - 1)) + s[Len(s)]

\* ToNumber of the JS abstract operation, as applied by `-` and `*`
ToNumber(v) == IF v.t = "str" THEN DigitsToNumber(v.s) ELSE v.n

\* ToBoolean of the JS abstract operation, as applied by `!`
ToBoolean(v) == IF v.t = "str" THEN Len(v.s) > 0 ELSE v.n # 0

Range(s) == {s[i] : i \in 1..Len(s)}

VARIABLES
    \* ---- offline pass: inputs
    filingsCsv,            \* rows of data/sec13f-filings: [externalId, report_date]
    holdingsCsv,           \* rows of data/sec13f-holdings
    \* ---- offline pass: state of extractValueDeltaFromFilings
    pc,
    filingReportDates,     \* externalId -> report_date
    sortedReportDates,
    rowIdx,                \* holdings rows consumed so far
    tmpFiles,              \* groupId -> rows of the group's file in tmp/sec13f-holdings
    walked,                \* group files already walked
    curGroup,
    fundCompReportsByYear, \* report date -> row, of the current group
    dateIdx,               \* position of the forEach over sortedReportDates
    prevEntry,             \* <<>> for null, <<entry>> otherwise
    deltaData,
    output,                \* rows handed to deltaWriter
    \* ---- crawler: inputs
    router,                \* which of the two router files is deployed: "chunking"
                           \*   (part_000 761-910) or "content" (part_000 962-1103)
    dirPages,              \* filing -> anchors of its directory page, each with the
                           \*           document served at the anchor's target
    \* ---- crawler: state
    queue,                 \* the request queue, head first
    dataset,               \* items handed to pushData, in order
    uuidCount,             \* randomUUID() results drawn so far
    failed,                \* URLs of the requests given up after their last retry
    steps,                 \* filing -> log of the handler runs for it, each with its
                           \*           pushRequests/pushData calls (0: the index file)
    \* ---- consolidation: the dataset directory
    dir,                   \* file name -> content of the file
    \* ---- consolidation: state of mergePartialFiles and mergeAmendmentFiles
    mpc,
    run,                   \* how many times the two passes have been started
    datasetFiles,          \* the listing loadDataset returned to the running pass
    partialFiles,          \* entries of partialFiles: [multipartId, parts]
    groupIdx,              \* entries of partialFiles / amendmentFiles dealt with so far
    partIdx,               \* parts of the current entry appended or unlinked so far
    amendedFilings,        \* file numbers with an amendment, in insertion order
    filingIdToFilename,    \* file number -> file names
    thrown,                \* the error that ended the script, "" while there is none
    firstRun,              \* the directory as the first run of the two passes left it
    readdirOrder,          \* order in which readdir lists the directory
    \* ---- discovery: parseSECIndexFile and parse13FFilings
    idxContent,            \* content.split('\n'): the lines of the index file
    idxLine,               \* lines the forEach has dealt with
    idxMeta,               \* meta
    idxEntries,            \* entries
    colNames,
    isParsingMeta,
    thirteenFs,            \* what parse13FFilings returned
    \* ---- discovery: get13FFilingsSinceDate
    feedPages,             \* the entries the feed serves, in feed order
    perPage,
    maxPages,
    feedOffset,            \* offset
    feedI,                 \* i of the for loop
    feedRequested,         \* the start parameters of the requests made so far
    feedResults,           \* results
    feedPc,                \* "loop", "returned" or "thrown"
    \* ---- discovery: extractHoldingsFromInfoTableXml
    infoTable,             \* the text of the cusip element of each infoTable
    holdingsOut,           \* the cusip of each Holding returned, <<>> before the call
    \* ---- crawler: the while loop of the XML handler, turn by turn
    chunkStr,              \* entryStr
    chunkIndex,            \* contentIndex
    chunkPart,             \* partIndex
    chunkLimit,            \* actualLimitSize
    chunkPushed            \* the parts handed to pushData so far

seriesVars == <<filingsCsv, holdingsCsv, pc, filingReportDates, sortedReportDates,
                rowIdx, tmpFiles, walked, curGroup, fundCompReportsByYear,
                dateIdx, prevEntry, deltaData, output>>

chunkLoopVars == <<chunkStr, chunkIndex, chunkPart, chunkLimit, chunkPushed>>

crawlVars == <<router, dirPages, queue, dataset, uuidCount, failed, steps, chunkLoopVars>>

mergeVars == <<dir, mpc, run, datasetFiles, partialFiles, groupIdx, partIdx,
               amendedFilings, filingIdToFilename, thrown, firstRun, readdirOrder>>

discoveryVars == <<idxContent, idxLine, idxMeta, idxEntries, colNames, isParsingMeta,
                   thirteenFs, feedPages, perPage, maxPages, feedOffset, feedI,
                   feedRequested, feedResults, feedPc, infoTable, holdingsOut>>

vars == <<seriesVars, crawlVars, mergeVars, discoveryVars>>

\* no function of the SEC client is running
DiscoveryIdle ==
    /\ idxContent = <<>>
    /\ idxLine = 0
    /\ idxMeta = <<>>
    /\ idxEntries = <<>>
    /\ colNames = <<>>
    /\ isParsingMeta = TRUE
    /\ thirteenFs = <<>>
    /\ feedPages = <<>>
    /\ perPage = 1
    /\ maxPages = 1
    /\ feedOffset = 0
    /\ feedI = 0
    /\ feedRequested = <<>>
    /\ feedResults = <<>>
    /\ feedPc = "idle"
    /\ infoTable = <<>>
    /\ holdingsOut = <<>>

\* the consolidation script has not been started
MergeIdle ==
    /\ dir = <<>>
    /\ mpc = "idle"
    /\ run = 0
    /\ datasetFiles = <<>>
    /\ partialFiles = <<>>
    /\ groupIdx = 0
    /\ partIdx = 0
    /\ amendedFilings = <<>>
    /\ filingIdToFilename = <<>>
    /\ thrown = ""
    /\ firstRun = <<>>
    /\ readdirOrder = "ascending"

\* no entry is being written in parts
ChunkLoopIdle ==
    /\ chunkStr = <<>>
    /\ chunkIndex = 0
    /\ chunkPart = 0
    /\ chunkLimit = 0
    /\ chunkPushed = <<>>

\* the crawler has nothing to do while the offline pass runs
CrawlIdle ==
    /\ router = "chunking"
    /\ dirPages = <<>>
    /\ queue = <<>>
    /\ dataset = <<>>
    /\ uuidCount = 0
    /\ failed = {}
    /\ steps = <<>>
    /\ ChunkLoopIdle

\* ---------------------------------------------------------------------------
\* extractValueDeltaFromFilings: pure parts
\* ---------------------------------------------------------------------------

\* mutant: the report dates are collected in an array instead of a Set
SetAdd_KeepsDuplicates(set, x) == Append(set, x)

\* Set.prototype.add on an insertion-ordered Set (allReportDates.add)
SetAdd(set, x) == IF x \in Range(set) THEN set ELSE Append(set, x)

\* onRow of the filings pass, folded over the rows read so far:
\* <<filingReportDates, allReportDates>>
RECURSIVE LoadFilingRows(_)
LoadFilingRows(rows) ==
    IF rows = <<>> THEN << <<>>, <<>> >>
    ELSE LET before == LoadFilingRows(SubSeq(rows, 1, Len(rows) - 1))
             row == rows[Len(rows)]
         IN  << [id \in (DOMAIN before[1]) \cup {row.externalId} |->
                    IF id = row.externalId THEN row.report_date ELSE before[1][id]],
                SetAdd(before[2], row.report_date) >>

\* the comparator handed to Array.prototype.sort
CompareDates(a, b) == IF a > b THEN 1 ELSE IF a < b THEN -1 ELSE 0

\* insertion of x into a list ordered by the comparator
RECURSIVE InsertSorted(_, _)
InsertSorted(sorted, x) ==
    IF sorted = <<>> THEN <<x>>
    ELSE IF CompareDates(x, Head(sorted)) < 0 THEN <<x>> \o sorted
    ELSE <<Head(sorted)>> \o InsertSorted(Tail(sorted), x)

\* [...allReportDates].sort(comparator)
RECURSIVE SortReportDates(_)
SortReportDates(dates) ==
    IF dates = <<>> THEN <<>>
    ELSE InsertSorted(SortReportDates(SubSeq(dates, 1, Len(dates) - 1)), dates[Len(dates)])

\* groupId of a holdings row: `${row.fundCik}__${row.cusip}`
GroupId(row) == <<row.fundCik, row.cusip>>

\* the record written to the group's file for one holdings row
GroupedRow(row, reportDates) ==
    [fundCik |-> row.fundCik, cusip |-> row.cusip, value |-> row.value,
     sharesOrPrincipalAmount |-> row.sharesOrPrincipalAmount,
     reportDate |-> reportDates[row.filingExternalId]]

\* onRow of the group-file pass folded over the file's rows:
\* fundCompReportsByYear[data.reportDate] = data
RECURSIVE IndexByReportDate(_)
IndexByReportDate(rows) ==
    IF rows = <<>> THEN <<>>
    ELSE LET before == IndexByReportDate(SubSeq(rows, 1, Len(rows) - 1))
             data == rows[Len(rows)]
         IN  [d \in (DOMAIN before) \cup {data.reportDate} |->
                 IF d = data.reportDate THEN data ELSE before[d]]

\* the entry of one forEach iteration before any branch fills it in
BlankEntry(fundCik, cusip, reportDate) ==
    [fundCik |-> fundCik, cusip |-> cusip, report_date |-> reportDate,
     value |-> Num(0), valueDelta |-> 0,
     sharesOrPrincipalAmount |-> Num(0), sharesOrPrincipalAmountDelta |-> 0]

\* the branches of one forEach iteration, named as in the design notes
EnterEntry(report, blank, valueDelta, sharesDelta) ==
    [blank EXCEPT !.value = report.value,
                  !.valueDelta = valueDelta,
                  !.sharesOrPrincipalAmount = report.sharesOrPrincipalAmount,
                  !.sharesOrPrincipalAmountDelta = sharesDelta]

ExitEntry(blank, valueDelta, sharesDelta) ==
    [blank EXCEPT !.value = Num(0),
                  !.valueDelta = valueDelta,
                  !.sharesOrPrincipalAmount = Num(0),
                  !.sharesOrPrincipalAmountDelta = sharesDelta]

\* mutant: the first sighting is booked as a gain of its full value
WalkEntry_FirstSightingGain(report, prev, blank) ==
    IF report # <<>> THEN
        IF prev = <<>> THEN
            << EnterEntry(report[1], blank, ToNumber(report[1].value),
                          ToNumber(report[1].sharesOrPrincipalAmount)) >>
        ELSE
            << EnterEntry(report[1], blank,
                          ToNumber(report[1].value) - ToNumber(prev[1].value),
                          ToNumber(report[1].sharesOrPrincipalAmount)
                          - ToNumber(prev[1].sharesOrPrincipalAmount)) >>
    ELSE
        IF prev = <<>> THEN << blank >>
        ELSE IF ~ToBoolean(prev[1].value) THEN <<>>
        ELSE << ExitEntry(blank, (-1) * ToNumber(prev[1].value),
                          (-1) * ToNumber(prev[1].sharesOrPrincipalAmount)) >>

\* mutant: an observation after a zero-value entry is treated as a first sighting
WalkEntry_ZeroIsNoBaseline(report, prev, blank) ==
    IF report # <<>> THEN
        IF prev = <<>> \/ ToNumber(prev[1].value) = 0 THEN
            << EnterEntry(report[1], blank, 0, 0) >>
        ELSE
            << EnterEntry(report[1], blank,
                          ToNumber(report[1].value) - ToNumber(prev[1].value),
                          ToNumber(report[1].sharesOrPrincipalAmount)
                          - ToNumber(prev[1].sharesOrPrincipalAmount)) >>
    ELSE
        IF prev = <<>> THEN << blank >>
        ELSE IF ~ToBoolean(prev[1].value) THEN <<>>
        ELSE << ExitEntry(blank, (-1) * ToNumber(prev[1].value),
                          (-1) * ToNumber(prev[1].sharesOrPrincipalAmount)) >>

\* mutant: the exit entry leaves the share delta at 0
WalkEntry_ExitKeepsShares(report, prev, blank) ==
    IF report # <<>> THEN
        IF prev = <<>> THEN
            << EnterEntry(report[1], blank, 0, 0) >>
        ELSE
            << EnterEntry(report[1], blank,
                          ToNumber(report[1].value) - ToNumber(prev[1].value),
                          ToNumber(report[1].sharesOrPrincipalAmount)
                          - ToNumber(prev[1].sharesOrPrincipalAmount)) >>
    ELSE
        IF prev = <<>> THEN << blank >>
        ELSE IF ~ToBoolean(prev[1].value) THEN <<>>
        ELSE << ExitEntry(blank, (-1) * ToNumber(prev[1].value), 0) >>

\* mutant: the early return for an already-closed position is missing
WalkEntry_NoSuppress(report, prev, blank) ==
    IF report # <<>> THEN
        IF prev = <<>> THEN
            << EnterEntry(report[1], blank, 0, 0) >>
        ELSE
            << EnterEntry(report[1], blank,
                          ToNumber(report[1].value) - ToNumber(prev[1].value),
                          ToNumber(report[1].sharesOrPrincipalAmount)
                          - ToNumber(prev[1].sharesOrPrincipalAmount)) >>
    ELSE
        IF prev = <<>> THEN << blank >>
        ELSE << ExitEntry(blank, (-1) * ToNumber(prev[1].value),
                          (-1) * ToNumber(prev[1].sharesOrPrincipalAmount)) >>

\* One iteration of sortedReportDates.forEach: <<>> when the callback returns
\* without pushing, <<entry>> when it pushes entry.
\* report is <<>> (undefined) or <<row>>; prev is <<>> (null) or <<entry>>.
WalkEntry(report, prev, blank) ==
    IF report # <<>> THEN
        IF prev = <<>> THEN
            << EnterEntry(report[1], blank, 0, 0) >>
        ELSE
            << EnterEntry(report[1], blank,
                          ToNumber(report[1].value) - ToNumber(prev[1].value),
                          ToNumber(report[1].sharesOrPrincipalAmount)
                          - ToNumber(prev[1].sharesOrPrincipalAmount)) >>
    ELSE
        IF prev = <<>> THEN
            << blank >>
        ELSE IF ~ToBoolean(prev[1].value) THEN
            <<>>
        ELSE
            << ExitEntry(blank, (-1) * ToNumber(prev[1].value),
                         (-1) * ToNumber(prev[1].sharesOrPrincipalAmount)) >>

\* mutant: only an observed entry is carried as the previous entry
CarryPrev_ObservedOnly(prev, emitted) ==
    IF emitted # <<>> /\ emitted[1].value.t = "str" THEN emitted ELSE prev

\* prevEntry after one iteration: `prevEntry = entry` runs only after a push
CarryPrev(prev, emitted) == IF emitted = <<>> THEN prev ELSE emitted

\* ---------------------------------------------------------------------------
\* extractValueDeltaFromFilings: inputs
\* ---------------------------------------------------------------------------
\* the (fundCik, cusip) pairs of the holdings rows
Groups == {<<1, "A">>, <<2, "A">>, <<2, "B">>}

\* (value, sharesOrPrincipalAmount) cells of a holdings row, as CSV text
Amounts ==
    { [value |-> Str(<<0>>),       sharesOrPrincipalAmount |-> Str(<<1, 0>>)],
      [value |-> Str(<<1, 0, 0>>), sharesOrPrincipalAmount |-> Str(<<1, 0>>)],
      [value |-> Str(<<2, 5, 0>>), sharesOrPrincipalAmount |-> Str(<<2, 5>>)] }

HoldingRow(fundCik, cusip, amount, externalId) ==
    [fundCik |-> fundCik, cusip |-> cusip, value |-> amount.value,
     sharesOrPrincipalAmount |-> amount.sharesOrPrincipalAmount,
     filingExternalId |-> externalId]

SetMax(S) == CHOOSE m \in S : \A x \in S : x <= m

\* the filings of a set of report dates, newest first, externalId = row number
RECURSIVE FilingsNewestFirst(_, _)
FilingsNewestFirst(dates, nextId) ==
    IF dates = {} THEN <<>>
    ELSE <<[externalId |-> nextId, report_date |-> SetMax(dates)]>>
         \o FilingsNewestFirst(dates \ {SetMax(dates)}, nextId + 1)

\* the holdings rows of one (fund, security) pair: at most one per filing
RECURSIVE OneGroupRows(_, _)
OneGroupRows(obs, n) ==
    IF n = 0 THEN <<>>
    ELSE OneGroupRows(obs, n - 1)
         \o (IF obs[n] = <<>> THEN <<>> ELSE <<HoldingRow(1, "A", obs[n][1], n)>>)

\* a dataset in which every filing has its own report date and one fund holds
\* one security: dates are the report dates, obs[i] the cells of filing i
SingleGroupInput(dates, obs) ==
    <<FilingsNewestFirst(dates, 1), OneGroupRows(obs, Cardinality(dates))>>

\* a dataset with repeated and unordered report dates, several groups and
\* several rows per group and filing: ds[i] is the report date of filing i,
\* rs[i] the (group, filing) of holdings row i
AmountOfRow(i) == CHOOSE a \in Amounts : ToNumber(a.value) = (IF i % 2 = 1 THEN 100 ELSE 250)

ManyGroupInput(ds, rs) ==
    << [i \in DOMAIN ds |-> [externalId |-> i, report_date |-> ds[i]]],
       [i \in DOMAIN rs |-> HoldingRow(rs[i][1][1], rs[i][1][2], AmountOfRow(i), rs[i][2])] >>

\* ---------------------------------------------------------------------------
\* extractValueDeltaFromFilings: steps
\* ---------------------------------------------------------------------------
InitSeries ==
    /\ \/ \E dates \in {D \in SUBSET (1..MaxDate) : D # {} /\ Cardinality(D) <= MaxFilings} :
             \E obs \in [1..Cardinality(dates) -> {<<>>} \cup {<<a>> : a \in Amounts}] :
                /\ filingsCsv = SingleGroupInput(dates, obs)[1]
                /\ holdingsCsv = SingleGroupInput(dates, obs)[2]
       \/ \E nf \in 1..MaxDupFilings, nr \in 0..MaxRows :
             \E ds \in [1..nf -> 1..MaxDupDate], rs \in [1..nr -> Groups \X (1..nf)] :
                /\ filingsCsv = ManyGroupInput(ds, rs)[1]
                /\ holdingsCsv = ManyGroupInput(ds, rs)[2]
    /\ pc = "loadFilings"
    /\ filingReportDates = <<>>
    /\ sortedReportDates = <<>>
    /\ rowIdx = 0
    /\ tmpFiles = <<>>
    /\ walked = {}
    /\ curGroup = <<>>
    /\ fundCompReportsByYear = <<>>
    /\ dateIdx = 0
    /\ prevEntry = <<>>
    /\ deltaData = <<>>
    /\ output = <<>>
    /\ CrawlIdle
    /\ MergeIdle
    /\ DiscoveryIdle

\* steps 1-2: read every filings row, then sort the distinct report dates
LoadFilings ==
    /\ pc = "loadFilings"
    /\ LET loaded == LoadFilingRows(filingsCsv)
       IN  /\ filingReportDates' = loaded[1]
           /\ sortedReportDates' = SortReportDates(loaded[2])
    /\ pc' = IF Len(holdingsCsv) = 0 THEN "groups" ELSE "groupHoldings"
    /\ UNCHANGED <<filingsCsv, holdingsCsv, rowIdx, tmpFiles, walked, curGroup,
                   fundCompReportsByYear, dateIdx, prevEntry, deltaData, output>>
    /\ UNCHANGED <<crawlVars, mergeVars, discoveryVars>>

\* steps 3-5: onRow of the holdings pass appends the row to its group's file
GroupHoldingsRow ==
    /\ pc = "groupHoldings"
    /\ rowIdx < Len(holdingsCsv)
    /\ LET row == holdingsCsv[rowIdx + 1]
           groupId == GroupId(row)
           data == GroupedRow(row, filingReportDates)
       IN  tmpFiles' = [g \in (DOMAIN tmpFiles) \cup {groupId} |->
                           IF g = groupId
                           THEN (IF g \in DOMAIN tmpFiles THEN tmpFiles[g] ELSE <<>>) \o <<data>>
                           ELSE tmpFiles[g]]
    /\ rowIdx' = rowIdx + 1
    /\ pc' = IF rowIdx + 1 = Len(holdingsCsv) THEN "groups" ELSE "groupHoldings"
    /\ UNCHANGED <<filingsCsv, holdingsCsv, filingReportDates, sortedReportDates, walked,
                   curGroup, fundCompReportsByYear, dateIdx, prevEntry, deltaData, output>>
    /\ UNCHANGED <<crawlVars, mergeVars, discoveryVars>>

\* the loop over the group files takes the next file and indexes its rows
StartGroup ==
    /\ pc = "groups"
    /\ \E g \in (DOMAIN tmpFiles) \ walked :
          /\ curGroup' = g
          /\ fundCompReportsByYear' = IndexByReportDate(tmpFiles[g])
    /\ dateIdx' = 1
    /\ prevEntry' = <<>>
    /\ deltaData' = <<>>
    /\ pc' = "walk"
    /\ UNCHANGED <<filingsCsv, holdingsCsv, filingReportDates, sortedReportDates, rowIdx,
                   tmpFiles, walked, output>>
    /\ UNCHANGED <<crawlVars, mergeVars, discoveryVars>>

\* one iteration of sortedReportDates.forEach
WalkDate ==
    /\ pc = "walk"
    /\ dateIdx <= Len(sortedReportDates)
    /\ LET reportDate == sortedReportDates[dateIdx]
           report == IF reportDate \in DOMAIN fundCompReportsByYear
                     THEN <<fundCompReportsByYear[reportDate]>> ELSE <<>>
           emitted == WalkEntry(report, prevEntry,
                                BlankEntry(curGroup[1], curGroup[2], reportDate))
       IN  /\ deltaData' = deltaData \o emitted
           /\ prevEntry' = CarryPrev(prevEntry, emitted)
    /\ dateIdx' = dateIdx + 1
    /\ UNCHANGED <<filingsCsv, holdingsCsv, pc, filingReportDates, sortedReportDates, rowIdx,
                   tmpFiles, walked, curGroup, fundCompReportsByYear, output>>
    /\ UNCHANGED <<crawlVars, mergeVars, discoveryVars>>

\* deltaWriter.push(deltaData) after the forEach of one group
FinishGroup ==
    /\ pc = "walk"
    /\ dateIdx > Len(sortedReportDates)
    /\ output' = output \o deltaData
    /\ walked' = walked \cup {curGroup}
    /\ pc' = "groups"
    /\ UNCHANGED <<filingsCsv, holdingsCsv, filingReportDates, sortedReportDates, rowIdx,
                   tmpFiles, curGroup, fundCompReportsByYear, dateIdx, prevEntry, deltaData>>
    /\ UNCHANGED <<crawlVars, mergeVars, discoveryVars>>

\* the last flush, after which the group files are removed
FinishSeries ==
    /\ pc = "groups"
    /\ walked = DOMAIN tmpFiles
    /\ pc' = "done"
    /\ tmpFiles' = <<>>
    /\ UNCHANGED <<filingsCsv, holdingsCsv, filingReportDates, sortedReportDates, rowIdx,
                   walked, curGroup, fundCompReportsByYear, dateIdx, prevEntry, deltaData,
                   output>>
    /\ UNCHANGED <<crawlVars, mergeVars, discoveryVars>>

NextSeries ==
    \/ LoadFilings
    \/ GroupHoldingsRow
    \/ StartGroup
    \/ WalkDate
    \/ FinishGroup
    \/ FinishSeries

SpecSeries == InitSeries /\ [][NextSeries]_vars

\* ---------------------------------------------------------------------------
\* Properties of the time-series walk (checked under SpecSeries)
\* ---------------------------------------------------------------------------
Walking == pc = "walk"

\* horizon positions the forEach of the current group has already handled
Processed == 1..(dateIdx - 1)

HasReport(k) == sortedReportDates[k] \in DOMAIN fundCompReportsByYear
ReportAt(k) == fundCompReportsByYear[sortedReportDates[k]]

\* positions in deltaData of the entries emitted at horizon position k
EntriesAt(k) == {i \in DOMAIN deltaData : deltaData[i].report_date = sortedReportDates[k]}

\* positions in deltaData of the entries emitted before horizon position k
EmittedBefore(k) ==
    {i \in DOMAIN deltaData :
        \E j \in 1..(k - 1) : deltaData[i].report_date = sortedReportDates[j]}

\* the most recently emitted entry when the walk arrives at horizon position k
PrevAt(k) == deltaData[SetMax(EmittedBefore(k))]

Triples(entries) ==
    [i \in DOMAIN entries |->
        <<entries[i].report_date, ToNumber(entries[i].value), entries[i].valueDelta>>]

\* the worked example: horizon [Q1,Q2,Q3,Q4], observations only at Q1 and Q3,
\* both of value 100, and the walk of the group has finished
C1_Case ==
    /\ Walking
    /\ sortedReportDates = <<1, 2, 3, 4>>
    /\ dateIdx > Len(sortedReportDates)
    /\ DOMAIN fundCompReportsByYear = {1, 3}
    /\ ToNumber(fundCompReportsByYear[1].value) = 100
    /\ ToNumber(fundCompReportsByYear[3].value) = 100

\* C1 (as stated): the worked example emits
\* [(Q1,100,+100),(Q2,0,-100),(Q3,100,+100),(Q4,0,-100)].
C1_Original ==
    C1_Case => Triples(deltaData) =
        << <<1, 100, 100>>, <<2, 0, -100>>, <<3, 100, 100>>, <<4, 0, -100>> >>

\* C1 (amended): the worked example emits
\* [(Q1,100,0),(Q2,0,-100),(Q3,100,+100),(Q4,0,-100)]: the first sighting at Q1
\* has no baseline and gets valueDelta 0.
C1_WorkedExample ==
    C1_Case => Triples(deltaData) =
        << <<1, 100, 0>>, <<2, 0, -100>>, <<3, 100, 100>>, <<4, 0, -100>> >>

C1_Witness == C1_Case /\ Len(deltaData) = 4

\* horizon position k holds the first observation of the current group
FirstObservation(k) == HasReport(k) /\ \A j \in 1..(k - 1) : ~HasReport(j)

\* C2 (as stated): the entry emitted at the date of the group's first-ever
\* observation has valueDelta 0 and share delta 0, whichever position that date
\* has in the horizon.
C2_Original ==
    Walking =>
        \A k \in Processed : FirstObservation(k) =>
            /\ EntriesAt(k) # {}
            /\ \A i \in EntriesAt(k) :
                  /\ deltaData[i].valueDelta = 0
                  /\ deltaData[i].sharesOrPrincipalAmountDelta = 0

\* C2 (amended): exactly one entry is emitted at the date of the group's first
\* observation; its valueDelta and share delta are 0 when that date is the first
\* date of the horizon, and otherwise (a zero entry was emitted at the first
\* horizon date) they equal the observation's full value and
\* sharesOrPrincipalAmount.
C2_FirstObservationDelta ==
    Walking =>
        \A k \in Processed : FirstObservation(k) =>
            \E i \in DOMAIN deltaData :
                /\ EntriesAt(k) = {i}
                /\ deltaData[i].value = ReportAt(k).value
                /\ deltaData[i].sharesOrPrincipalAmount = ReportAt(k).sharesOrPrincipalAmount
                /\ IF k = 1
                   THEN /\ deltaData[i].valueDelta = 0
                        /\ deltaData[i].sharesOrPrincipalAmountDelta = 0
                   ELSE /\ deltaData[i].valueDelta = ToNumber(ReportAt(k).value)
                        /\ deltaData[i].sharesOrPrincipalAmountDelta =
                              ToNumber(ReportAt(k).sharesOrPrincipalAmount)

\* a first observation of nonzero value at the first horizon date, walked
C2_Witness ==
    /\ Walking
    /\ 1 \in Processed
    /\ FirstObservation(1)
    /\ ToNumber(ReportAt(1).value) # 0
    /\ Len(deltaData) >= 1

\* no observation at horizon position k, and the previously emitted entry has
\* nonzero value
ExitCase(k) ==
    /\ ~HasReport(k)
    /\ EmittedBefore(k) # {}
    /\ ToNumber(PrevAt(k).value) # 0

\* C3: at a horizon date without observation whose previously emitted entry has
\* nonzero value, exactly one entry is emitted, with value 0, valueDelta =
\* -(previous value), shares 0 and share delta = -(previous shares).
C3_ExitEntry ==
    Walking =>
        \A k \in Processed : ExitCase(k) =>
            \E i \in DOMAIN deltaData :
                /\ EntriesAt(k) = {i}
                /\ deltaData[i].value = Num(0)
                /\ deltaData[i].valueDelta = 0 - ToNumber(PrevAt(k).value)
                /\ deltaData[i].sharesOrPrincipalAmount = Num(0)
                /\ deltaData[i].sharesOrPrincipalAmountDelta =
                      0 - ToNumber(PrevAt(k).sharesOrPrincipalAmount)

C3_Witness ==
    /\ Walking
    /\ \E k \in Processed :
          /\ ExitCase(k)
          /\ ToNumber(PrevAt(k).sharesOrPrincipalAmount) # 0

\* C4: at a horizon date with an observation and an entry emitted before, the
\* emitted valueDelta is the observation's value minus the value of the most
\* recently emitted entry, the share delta likewise; a position re-opened after
\* an exit entry so has a delta equal to its full value.
C4_DeltaAgainstPrevious ==
    Walking =>
        \A k \in Processed : (HasReport(k) /\ EmittedBefore(k) # {}) =>
            \E i \in DOMAIN deltaData :
                /\ EntriesAt(k) = {i}
                /\ deltaData[i].value = ReportAt(k).value
                /\ deltaData[i].valueDelta =
                      ToNumber(ReportAt(k).value) - ToNumber(PrevAt(k).value)
                /\ deltaData[i].sharesOrPrincipalAmountDelta =
                      ToNumber(ReportAt(k).sharesOrPrincipalAmount)
                      - ToNumber(PrevAt(k).sharesOrPrincipalAmount)
                /\ (PrevAt(k).value = Num(0) =>
                      deltaData[i].valueDelta = ToNumber(ReportAt(k).value))

\* a position re-opened after an exit entry
C4_Witness ==
    /\ Walking
    /\ \E k \in Processed :
          /\ HasReport(k)
          /\ EmittedBefore(k) # {}
          /\ PrevAt(k).value = Num(0)
          /\ PrevAt(k).valueDelta < 0
          /\ ToNumber(ReportAt(k).value) # 0

\* C5: at a horizon date without observation whose previously emitted entry has
\* value 0, nothing is emitted, so no zero-value gap entry directly follows
\* another zero-value entry.
C5_SuppressAfterZero ==
    Walking =>
        /\ \A k \in Processed :
              (~HasReport(k) /\ EmittedBefore(k) # {} /\ ToNumber(PrevAt(k).value) = 0)
                  => EntriesAt(k) = {}
        /\ \A i \in 2..Len(deltaData) :
              ~(/\ ToNumber(deltaData[i - 1].value) = 0
                /\ deltaData[i].value = Num(0)
                /\ deltaData[i].report_date \notin DOMAIN fundCompReportsByYear)

\* no observation at horizon position k nor at any earlier one
NeverYetInvested(k) == \A j \in 1..k : ~HasReport(j)

\* C6 (as stated): for every horizon date that precedes the group's first
\* observation an entry with value 0 and valueDelta 0 is emitted.
C6_Original ==
    Walking =>
        \A k \in Processed : NeverYetInvested(k) =>
            \E i \in EntriesAt(k) :
                /\ ToNumber(deltaData[i].value) = 0
                /\ deltaData[i].valueDelta = 0

\* C6 (amended): when the first horizon date precedes the group's first
\* observation, one entry with value 0, valueDelta 0, shares 0 and share delta 0
\* is emitted at it; at every later horizon date that precedes the first
\* observation nothing is emitted.
C6_LeadingZeroEntry ==
    Walking =>
        \A k \in Processed : NeverYetInvested(k) =>
            IF k = 1
            THEN /\ EntriesAt(1) = {1}
                 /\ deltaData[1] = BlankEntry(curGroup[1], curGroup[2], sortedReportDates[1])
            ELSE EntriesAt(k) = {}

\* two horizon dates precede the first observation, which the walk has reached
C6_Witness ==
    /\ Walking
    /\ 3 \in Processed
    /\ NeverYetInvested(2)
    /\ HasReport(3)

StrictlyAscending(dates) ==
    \A i, j \in DOMAIN dates : i < j => dates[i] < dates[j]

DatesOf(entries) == [i \in DOMAIN entries |-> entries[i].report_date]

EntriesOfGroup(entries, g) ==
    SelectSeq(entries, LAMBDA e : <<e.fundCik, e.cusip>> = g)

\* C7: the horizon is the duplicate-free ascending list of all report dates of
\* all filings, and the entries emitted for every group have strictly
\* increasing report dates, each a horizon date (so at most one per date).
C7_CanonicalHorizon ==
    pc # "loadFilings" =>
        /\ StrictlyAscending(sortedReportDates)
        /\ Range(sortedReportDates) = {filingsCsv[i].report_date : i \in DOMAIN filingsCsv}
        /\ Walking =>
              /\ StrictlyAscending(DatesOf(deltaData))
              /\ Range(DatesOf(deltaData)) \subseteq Range(sortedReportDates)
        /\ \A g \in walked :
              /\ StrictlyAscending(DatesOf(EntriesOfGroup(output, g)))
              /\ Range(DatesOf(EntriesOfGroup(output, g))) \subseteq Range(sortedReportDates)
              /\ EntriesOfGroup(output, g) # <<>>

\* two groups walked over the horizon of two filings of the same report date
C7_Witness ==
    /\ pc = "done"
    /\ Cardinality(walked) = 2
    /\ Len(filingsCsv) = 2
    /\ filingsCsv[1].report_date = filingsCsv[2].report_date
    /\ Len(output) >= 2

\* C8: grouping by (fund CIK, CUSIP) and indexing by report date loses no
\* holdings row: every row is in the file of its group, and every row of the
\* walked group is the observation the walk uses at the row's report date.
C8_NoRowLost ==
    /\ pc \in {"groups", "walk"} =>
          \A i \in DOMAIN holdingsCsv :
              /\ GroupId(holdingsCsv[i]) \in DOMAIN tmpFiles
              /\ GroupedRow(holdingsCsv[i], filingReportDates)
                    \in Range(tmpFiles[GroupId(holdingsCsv[i])])
    /\ Walking =>
          \A i \in DOMAIN tmpFiles[curGroup] :
              LET row == tmpFiles[curGroup][i]
              IN  /\ row.reportDate \in DOMAIN fundCompReportsByYear
                  /\ fundCompReportsByYear[row.reportDate] = row

\* ---------------------------------------------------------------------------
\* Crawler: URLs, directory pages and documents
\* ---------------------------------------------------------------------------
\* JSON.stringify(entry).length above which an entry is split into parts
origLimitSize == 9000000
\* amount by which the slice size is decreased when a part is too long
limitDecrease == 1000000
\* handlers the crawler runs at the same time
maxConcurrency == 2

FilingIds == {1, 2}

\* A URL is modelled by the parts of its pathname that the routes look at:
\*   /Archives/edgar/full-index/<year>/QTR<n>/master.idx        path = "index"
\*   /Archives/edgar/data/<cik>/<submission>                    path = "dir"
\*   /Archives/edgar/data/<cik>/<submission>[/<sub>]/<file>.<ext>  path = "file"
\* <cik>/<submission> is the filing, <file> is the position of the link on the
\* directory page, so that two links never have the same target.
IndexUrl == [path |-> "index", filing |-> 0, file |-> 0, sub |-> FALSE, ext |-> "idx"]
DirUrl(f) == [path |-> "dir", filing |-> f, file |-> 0, sub |-> FALSE, ext |-> ""]
FileUrl(f, i, sub, ext) == [path |-> "file", filing |-> f, file |-> i, sub |-> sub, ext |-> ext]

\* String.prototype.toLowerCase on the extensions that occur
ToLowerCase(ext) == IF ext = "XML" THEN "xml" ELSE ext

\* the tables an information-table document can hold: count holdings whose
\* JSON has one character to escape in every quoteEvery characters
HoldingsTables ==
    { [count |-> 5, quoteEvery |-> 7],
      [count |-> 30000, quoteEvery |-> 7],
      [count |-> 60000, quoteEvery |-> 2] }

NoHoldings == [count |-> 0, quoteEvery |-> 7]

\* documents by the content the handlers look at: the two marker elements, the
\* report date of a primary document, the table of an information table, and
\* whether parsing the primary document throws
Document(es, it, reportDate, table, throws) ==
    [edgarSubmission |-> es, informationTable |-> it, report_date |-> reportDate,
     holdings |-> table, throws |-> throws]

PrimaryDocs == {Document(TRUE, FALSE, d, NoHoldings, FALSE) : d \in {1, 2}}
InfoTableDocs == {Document(FALSE, TRUE, 0, h, FALSE) : h \in HoldingsTables}
UnknownDoc == Document(FALSE, FALSE, 0, NoHoldings, FALSE)
BothMarkersDoc ==
    Document(TRUE, TRUE, 1, CHOOSE h \in HoldingsTables : h.count = 5, FALSE)
ThrowingDoc == Document(TRUE, FALSE, 0, NoHoldings, TRUE)

Documents == PrimaryDocs \cup InfoTableDocs \cup {UnknownDoc, BothMarkersDoc, ThrowingDoc}

\* anchors of a directory page: a file of the filing's directory with extension
\* .xml, the same with .XML, an .xml file one directory below, and a page that
\* is no XML file
Anchor(sub, ext, doc) == [sub |-> sub, ext |-> ext, doc |-> doc]

Anchors ==
    {Anchor(FALSE, "xml", d) : d \in Documents}
    \cup {Anchor(FALSE, "XML", d) : d \in PrimaryDocs}
    \cup {Anchor(TRUE, "xml", UnknownDoc), Anchor(FALSE, "htm", UnknownDoc)}

\* the hrefs of a filing's directory page, in page order
PageHrefs(f, page) == [i \in 1..Len(page) |-> FileUrl(f, i, page[i].sub, page[i].ext)]

\* the document the server returns for the target of a link
DocAt(pages, url) == pages[url.filing][url.file].doc

EndsWithXml_CaseSensitive(url) == url.ext = "xml"

\* .filter((href) => href.toLowerCase().endsWith('.xml'))
EndsWithXml(url) == ToLowerCase(url.ext) = "xml"

\* the resolver: every link that ends in .xml, or an error when there is none
parse13FFilingDataUrlsFromDirPage(hrefs) ==
    LET xmlUrls == SelectSeq(hrefs, EndsWithXml)
    IN  [threw |-> Len(xmlUrls) = 0, xmlUrls |-> xmlUrls]

\* the route whose match() accepts the URL: pathname.match(URL_REGEX.<ROUTE>)
MatchRoute(url) ==
    IF url.path = "index" THEN "EDGAR_INDEX_FILE"
    ELSE IF url.path = "dir" THEN "EDGAR_FILING_DIR"
    ELSE IF ~url.sub /\ ToLowerCase(url.ext) = "xml" THEN "EDGAR_FILING_XML_FILE"
    ELSE "none"

\* the filing as the index handler discovered it
DiscoveredFiling(f) == [externalId |-> f, directoryUrl |-> DirUrl(f)]

Spread_FirstWins(a, b) ==
    [k \in (DOMAIN a) \cup (DOMAIN b) |-> IF k \in DOMAIN a THEN a[k] ELSE b[k]]

\* { ...a, ...b }
Spread(a, b) ==
    [k \in (DOMAIN a) \cup (DOMAIN b) |-> IF k \in DOMAIN b THEN b[k] ELSE a[k]]

\* isXmlPrimaryDoc is asked first, then isXmlInfoTable
DocType(doc) ==
    IF doc.edgarSubmission THEN "primary_doc"
    ELSE IF doc.informationTable THEN "info_table"
    ELSE "unknown"

\* the element that the XML handler pushes to xmlUrls; the router that does
\* not chunk keeps the document's XML in it
VisitedDoc(version, url, doc) ==
    IF version = "chunking" THEN [url |-> url, type |-> DocType(doc)]
    ELSE [url |-> url, type |-> DocType(doc), content |-> doc]

\* dataToAdd of the XML handler
DataToAdd(doc) ==
    IF doc.edgarSubmission THEN [report_date |-> doc.report_date]
    ELSE IF doc.informationTable THEN [holdings |-> doc.holdings]
    ELSE <<>>

\* ---------------------------------------------------------------------------
\* Crawler: serialisation and the chunked write of a finished entry
\* ---------------------------------------------------------------------------
Min(a, b) == IF a < b THEN a ELSE b

\* JSON.stringify(xmlUrls).length: an element takes 120 characters, and with
\* the document's XML kept in it 2000 more and 400 for each holding of the XML
RECURSIVE XmlUrlsLength(_)
XmlUrlsLength(v) ==
    IF v = <<>> THEN 2
    ELSE 120 + (IF "content" \in DOMAIN Head(v)
                THEN 2000 + 400 * Head(v).content.holdings.count ELSE 0)
             + XmlUrlsLength(Tail(v))

\* JSON.stringify(value).length of one field of an entry: a holding takes 330
\* characters, any field other than holdings and xmlUrls 40
FieldLength(k, v) ==
    IF k = "holdings" THEN 2 + 330 * v.count
    ELSE IF k = "xmlUrls" THEN XmlUrlsLength(v)
    ELSE 40

RECURSIVE FieldsLength(_, _)
FieldsLength(entry, keys) ==
    IF keys = {} THEN 0
    ELSE LET k == CHOOSE x \in keys : TRUE
         IN  FieldLength(k, entry[k]) + FieldsLength(entry, keys \ {k})

\* JSON.stringify(entry): a string is modelled by the value it serialises, its
\* length, and how densely it holds characters that JSON escapes
Stringify(entry) ==
    [json |-> entry,
     length |-> 2 + FieldsLength(entry, DOMAIN entry),
     quoteEvery |-> IF "holdings" \in DOMAIN entry /\ entry["holdings"].count > 0
                    THEN entry["holdings"].quoteEvery ELSE 7]

\* entryStr.slice(startIndex, endIndex): the characters [start, end) of the string
Slice(str, startIndex, endIndex) ==
    [json |-> str.json,
     start |-> Min(startIndex, str.length),
     end |-> Min(endIndex, str.length)]

PartData(multipartId, partIndex, slice) ==
    [_multipartId |-> multipartId, _partIndex |-> partIndex, _partData |-> slice]

PartLength_WideEscapes(partData, quoteEvery) ==
    LET n == partData._partData.end - partData._partData.start
    IN  84 + (IF partData._partIndex < 10 THEN 1 ELSE 2) + n + 9 * (n \div quoteEvery)

\* JSON.stringify(partData).length: 85 characters of keys, punctuation and the
\* 36 characters of the id with a one-digit index, the slice, and one backslash
\* for each of its characters that is escaped
PartLength(partData, quoteEvery) ==
    LET n == partData._partData.end - partData._partData.start
    IN  84 + (IF partData._partIndex < 10 THEN 1 ELSE 2) + n + (n \div quoteEvery)

RECURSIVE ChunkLoop_RetryTakesIndex(_, _, _, _, _)
ChunkLoop_RetryTakesIndex(entryStr, multipartId, contentIndex, partIndex, actualLimitSize) ==
    IF ~(contentIndex < entryStr.length) THEN <<>>
    ELSE LET partData == PartData(multipartId, partIndex,
                                  Slice(entryStr, contentIndex, contentIndex + actualLimitSize))
         IN  IF PartLength(partData, entryStr.quoteEvery) > origLimitSize
             THEN ChunkLoop_RetryTakesIndex(entryStr, multipartId, contentIndex, partIndex + 1,
                                            actualLimitSize - limitDecrease)
             ELSE <<partData>> \o ChunkLoop_RetryTakesIndex(entryStr, multipartId,
                                                            contentIndex + actualLimitSize,
                                                            partIndex + 1, actualLimitSize)

RECURSIVE ChunkLoop_NoRecheck(_, _, _, _, _)
ChunkLoop_NoRecheck(entryStr, multipartId, contentIndex, partIndex, actualLimitSize) ==
    IF ~(contentIndex < entryStr.length) THEN <<>>
    ELSE <<PartData(multipartId, partIndex,
                    Slice(entryStr, contentIndex, contentIndex + actualLimitSize))>>
         \o ChunkLoop_NoRecheck(entryStr, multipartId, contentIndex + actualLimitSize,
                                partIndex + 1, actualLimitSize)

RECURSIVE ChunkLoop_AdvancesByCeiling(_, _, _, _, _)
ChunkLoop_AdvancesByCeiling(entryStr, multipartId, contentIndex, partIndex, actualLimitSize) ==
    IF ~(contentIndex < entryStr.length) THEN <<>>
    ELSE LET partData == PartData(multipartId, partIndex,
                                  Slice(entryStr, contentIndex, contentIndex + actualLimitSize))
         IN  IF PartLength(partData, entryStr.quoteEvery) > origLimitSize
             THEN ChunkLoop_AdvancesByCeiling(entryStr, multipartId, contentIndex, partIndex,
                                              actualLimitSize - limitDecrease)
             ELSE <<partData>> \o ChunkLoop_AdvancesByCeiling(entryStr, multipartId,
                                                              contentIndex + origLimitSize,
                                                              partIndex + 1, actualLimitSize)

\* the while loop of the XML handler
RECURSIVE ChunkLoop(_, _, _, _, _)
ChunkLoop(entryStr, multipartId, contentIndex, partIndex, actualLimitSize) ==
    IF ~(contentIndex < entryStr.length) THEN <<>>
    ELSE LET partData == PartData(multipartId, partIndex,
                                  Slice(entryStr, contentIndex, contentIndex + actualLimitSize))
         IN  IF PartLength(partData, entryStr.quoteEvery) > origLimitSize
             THEN ChunkLoop(entryStr, multipartId, contentIndex, partIndex,
                            actualLimitSize - limitDecrease)
             ELSE <<partData>> \o ChunkLoop(entryStr, multipartId,
                                            contentIndex + actualLimitSize,
                                            partIndex + 1, actualLimitSize)

IsChunked(entry) == Stringify(entry).length > origLimitSize

\* the items the XML handler hands to pushData for a finished entry
PushedData(entry, multipartId) ==
    IF IsChunked(entry)
    THEN ChunkLoop(Stringify(entry), multipartId, 0, 0, origLimitSize)
    ELSE <<entry>>

\* ---------------------------------------------------------------------------
\* Crawler: requests and the queue
\* ---------------------------------------------------------------------------
Request(url, userData) == [url |-> url, userData |-> userData, retryCount |-> 0]

Without(q, i) == SubSeq(q, 1, i - 1) \o SubSeq(q, i + 1, Len(q))

\* a handler that throws puts the request back at the end of the queue until its
\* retries are used up
AfterFailure(q, i, req) ==
    IF req.retryCount < MaxRetries
    THEN Without(q, i) \o << [req EXCEPT !.retryCount = @ + 1] >>
    ELSE Without(q, i)

GivenUp(failedUrls, req) ==
    IF req.retryCount < MaxRetries THEN failedUrls ELSE failedUrls \cup {req.url}

Forefront_KeepsHandled(q, i, reqs) == reqs \o q

\* pushRequests(..., { queueOptions: { forefront: true } })
Forefront(q, i, reqs) == reqs \o Without(q, i)

FirstRequest_SharedArray(filing, xmlUrls) ==
    Request(Head(xmlUrls),
            [filing |-> filing,
             xmlUrls |-> IF dataset # <<>> /\ "xmlUrls" \in DOMAIN dataset[Len(dataset)]
                         THEN dataset[Len(dataset)]["xmlUrls"] ELSE <<>>,
             remainingXmlUrls |-> Tail(xmlUrls)])

\* the request of the first XML file, built by the directory handler
FirstRequest(filing, xmlUrls) ==
    Request(Head(xmlUrls),
            [filing |-> filing, xmlUrls |-> <<>>, remainingXmlUrls |-> Tail(xmlUrls)])

NextRequest_KeepsHead(filing, dataToAdd, xmlUrls, remainingXmlUrls) ==
    Request(Head(remainingXmlUrls),
            [filing |-> Spread(filing, dataToAdd), xmlUrls |-> xmlUrls,
             remainingXmlUrls |-> remainingXmlUrls])

\* the request of the next XML file, built by the XML handler
NextRequest(filing, dataToAdd, xmlUrls, remainingXmlUrls) ==
    Request(Head(remainingXmlUrls),
            [filing |-> Spread(filing, dataToAdd), xmlUrls |-> xmlUrls,
             remainingXmlUrls |-> Tail(remainingXmlUrls)])

\* one run of a handler, as the log shows it
Step(route, req, outcome, pushedRequests, pushedData) ==
    [route |-> route, request |-> req, outcome |-> outcome,
     pushedRequests |-> pushedRequests, pushedData |-> pushedData]

\* console output of the run, kept per filing
Logged(log, step) == [log EXCEPT ![step.request.url.filing] = Append(@, step)]

\* the requests the crawler is working on
InFlight == 1..Min(maxConcurrency, Len(queue))

\* ---------------------------------------------------------------------------
\* Crawler: handlers
\* ---------------------------------------------------------------------------
SeriesIdle ==
    /\ filingsCsv = <<>>
    /\ holdingsCsv = <<>>
    /\ pc = "idle"
    /\ filingReportDates = <<>>
    /\ sortedReportDates = <<>>
    /\ rowIdx = 0
    /\ tmpFiles = <<>>
    /\ walked = {}
    /\ curGroup = <<>>
    /\ fundCompReportsByYear = <<>>
    /\ dateIdx = 0
    /\ prevEntry = <<>>
    /\ deltaData = <<>>
    /\ output = <<>>

\* the crawl starts at the index file; the directory pages of the filings it
\* lists hold at most MaxLinks links together
Init ==
    /\ \E n1 \in 0..MaxLinks :
          \E n2 \in 0..(MaxLinks - n1) :
             \E p1 \in [1..n1 -> Anchors], p2 \in [1..n2 -> Anchors] :
                dirPages = <<p1, p2>>
    /\ router \in {"chunking", "content"}
    /\ queue = << Request(IndexUrl, <<>>) >>
    /\ dataset = <<>>
    /\ uuidCount = 0
    /\ failed = {}
    /\ steps = [f \in {0} \cup FilingIds |-> <<>>]
    /\ ChunkLoopIdle
    /\ SeriesIdle
    /\ MergeIdle
    /\ DiscoveryIdle

\* the fetched URL is accepted by no route's match(): no handler runs
NoRouteMatched ==
    \E i \in InFlight :
        /\ MatchRoute(queue[i].url) = "none"
        /\ queue' = Without(queue, i)
        /\ steps' = Logged(steps, Step("none", queue[i], "no_route", <<>>, <<>>))
        /\ UNCHANGED <<router, dirPages, dataset, uuidCount, failed>>
        /\ UNCHANGED chunkLoopVars
        /\ UNCHANGED <<seriesVars, mergeVars, discoveryVars>>

\* EDGAR_INDEX_FILE.handler: one directory request per filing, added at the end
EDGAR_INDEX_FILE ==
    \E i \in InFlight :
        /\ MatchRoute(queue[i].url) = "EDGAR_INDEX_FILE"
        /\ LET requests == [f \in DOMAIN dirPages |->
                               Request(DirUrl(f), [filing |-> DiscoveredFiling(f)])]
           IN  /\ queue' = Without(queue, i) \o requests
               /\ steps' = Logged(steps, Step("EDGAR_INDEX_FILE", queue[i], "ok",
                                              requests, <<>>))
        /\ UNCHANGED <<router, dirPages, dataset, uuidCount, failed>>
        /\ UNCHANGED chunkLoopVars
        /\ UNCHANGED <<seriesVars, mergeVars, discoveryVars>>

\* EDGAR_FILING_DIR.handler
EDGAR_FILING_DIR ==
    \E i \in InFlight :
        /\ MatchRoute(queue[i].url) = "EDGAR_FILING_DIR"
        /\ LET req == queue[i]
               filing == req.userData.filing
               resolved == parse13FFilingDataUrlsFromDirPage(
                               PageHrefs(req.url.filing, dirPages[req.url.filing]))
               xmlUrls == resolved.xmlUrls
               entry == Spread(filing, [xmlUrls |-> xmlUrls])
               first == << FirstRequest(filing, xmlUrls) >>
           IN  IF resolved.threw THEN
                   /\ queue' = AfterFailure(queue, i, req)
                   /\ failed' = GivenUp(failed, req)
                   /\ dataset' = dataset
                   /\ steps' = Logged(steps, Step("EDGAR_FILING_DIR", req,
                                                  "handler_error", <<>>, <<>>))
               ELSE IF Len(xmlUrls) = 0 THEN
                   /\ queue' = Without(queue, i)
                   /\ failed' = failed
                   /\ dataset' = Append(dataset, entry)
                   /\ steps' = Logged(steps, Step("EDGAR_FILING_DIR", req, "ok",
                                                  <<>>, <<entry>>))
               ELSE
                   /\ queue' = Forefront(queue, i, first)
                   /\ failed' = failed
                   /\ dataset' = dataset
                   /\ steps' = Logged(steps, Step("EDGAR_FILING_DIR", req, "ok",
                                                  first, <<>>))
        /\ UNCHANGED <<router, dirPages, uuidCount>>
        /\ UNCHANGED chunkLoopVars
        /\ UNCHANGED <<seriesVars, mergeVars, discoveryVars>>

\* EDGAR_FILING_XML_FILE.handler
EDGAR_FILING_XML_FILE ==
    \E i \in InFlight :
        /\ MatchRoute(queue[i].url) = "EDGAR_FILING_XML_FILE"
        /\ LET req == queue[i]
               filing == req.userData.filing
               remainingXmlUrls == req.userData.remainingXmlUrls
               doc == DocAt(dirPages, req.url)
               \* xmlUrls.push(...) changes the array held by the request
               xmlUrls == Append(req.userData.xmlUrls, VisitedDoc(router, req.url, doc))
               pushedTo == [req EXCEPT !.userData.xmlUrls = xmlUrls]
               dataToAdd == DataToAdd(doc)
               entry == Spread(Spread(filing, dataToAdd), [xmlUrls |-> xmlUrls])
               parts == IF router = "chunking" THEN PushedData(entry, uuidCount + 1)
                        ELSE <<entry>>
               next == << NextRequest(filing, dataToAdd, xmlUrls, remainingXmlUrls) >>
           IN  IF doc.edgarSubmission /\ doc.throws THEN
                   /\ queue' = AfterFailure(queue, i, pushedTo)
                   /\ failed' = GivenUp(failed, req)
                   /\ UNCHANGED <<dataset, uuidCount>>
                   /\ steps' = Logged(steps, Step("EDGAR_FILING_XML_FILE", req,
                                                  "handler_error", <<>>, <<>>))
               ELSE IF Len(remainingXmlUrls) = 0 THEN
                   /\ queue' = Without(queue, i)
                   /\ failed' = failed
                   /\ dataset' = dataset \o parts
                   /\ uuidCount' = IF router = "chunking" /\ IsChunked(entry)
                                   THEN uuidCount + 1 ELSE uuidCount
                   /\ steps' = Logged(steps, Step("EDGAR_FILING_XML_FILE", req, "ok",
                                                  <<>>, parts))
               ELSE
                   /\ queue' = Forefront(queue, i, next)
                   /\ UNCHANGED <<dataset, uuidCount, failed>>
                   /\ steps' = Logged(steps, Step("EDGAR_FILING_XML_FILE", req, "ok",
                                                  next, <<>>))
        /\ UNCHANGED <<router, dirPages>>
        /\ UNCHANGED chunkLoopVars
        /\ UNCHANGED <<seriesVars, mergeVars, discoveryVars>>

Next ==
    \/ NoRouteMatched
    \/ EDGAR_INDEX_FILE
    \/ EDGAR_FILING_DIR
    \/ EDGAR_FILING_XML_FILE

Spec == Init /\ [][Next]_vars

\* ---------------------------------------------------------------------------
\* Properties of the per-filing assembly (checked under Spec)
\* ---------------------------------------------------------------------------
IsPart(item) == "_multipartId" \in DOMAIN item

\* the filing an item of the dataset belongs to
FilingOf(item) == IF IsPart(item) THEN item._partData.json["externalId"] ELSE item["externalId"]

ItemsOf(f) == SelectSeq(dataset, LAMBDA item : FilingOf(item) = f)

Pending(f) == {i \in DOMAIN queue : queue[i].url.filing = f}

IsXmlStep(s) == s.route = "EDGAR_FILING_XML_FILE"

\* the Extracting steps of a filing that ran to their end
ExtractingSteps(f) == SelectSeq(steps[f], LAMBDA s : IsXmlStep(s) /\ s.outcome = "ok")

\* an Extracting step that was given a non-empty remainingXmlUrls
HandsOver(s) ==
    /\ IsXmlStep(s)
    /\ s.outcome = "ok"
    /\ s.request.userData.remainingXmlUrls # <<>>

\* C9: an Extracting step that is given a non-empty list of remaining URLs
\* enqueues exactly one request: for the first remaining URL, with the rest of
\* the list, with the visited documents it was given plus the document it has
\* just classified, and with the filing it was given overwritten field by field
\* by what it extracted; it hands nothing to pushData, and as long as a request
\* of a filing is queued the dataset holds nothing of that filing.
C9_OneDocumentPerStep ==
    \A f \in FilingIds :
        /\ \A k \in DOMAIN steps[f] :
              LET s == steps[f][k]
                  given == s.request.userData
                  doc == DocAt(dirPages, s.request.url)
                  extracted == DataToAdd(doc)
              IN  HandsOver(s) =>
                    /\ s.pushedData = <<>>
                    /\ Len(s.pushedRequests) = 1
                    /\ LET r == s.pushedRequests[1]
                       IN  /\ r.url = given.remainingXmlUrls[1]
                           /\ r.userData.remainingXmlUrls
                                = SubSeq(given.remainingXmlUrls, 2, Len(given.remainingXmlUrls))
                           /\ Len(r.userData.xmlUrls) = Len(given.xmlUrls) + 1
                           /\ SubSeq(r.userData.xmlUrls, 1, Len(given.xmlUrls)) = given.xmlUrls
                           /\ r.userData.xmlUrls[Len(given.xmlUrls) + 1].url = s.request.url
                           /\ r.userData.xmlUrls[Len(given.xmlUrls) + 1].type = DocType(doc)
                           /\ DOMAIN r.userData.filing
                                = (DOMAIN given.filing) \cup (DOMAIN extracted)
                           /\ \A key \in DOMAIN r.userData.filing :
                                r.userData.filing[key]
                                  = IF key \in DOMAIN extracted THEN extracted[key]
                                    ELSE given.filing[key]
        /\ (Pending(f) # {} => ItemsOf(f) = <<>>)

\* a filing of two documents has gone through its first Extracting step, which
\* extracted something, and the second document's request is queued
C9_Witness ==
    \E f \in FilingIds :
        /\ Len(ExtractingSteps(f)) = 1
        /\ HandsOver(ExtractingSteps(f)[1])
        /\ DataToAdd(DocAt(dirPages, ExtractingSteps(f)[1].request.url)) # <<>>
        /\ Pending(f) # {}

\* the document URLs the resolver returns for a filing's directory page
Resolved(f) == parse13FFilingDataUrlsFromDirPage(PageHrefs(f, dirPages[f])).xmlUrls

\* the directory page has been handled and no request of the filing is left
Settled(f) ==
    /\ \E k \in DOMAIN steps[f] : steps[f][k].route = "EDGAR_FILING_DIR"
    /\ Pending(f) = {}

\* no handler run of the filing threw and none of its requests was given up
AllSucceeded(f) ==
    /\ \A k \in DOMAIN steps[f] : steps[f][k].outcome # "handler_error"
    /\ \A url \in failed : url.filing # f

\* one whole record, or the parts of one multipart id, and nothing else
PersistedOnce(f) ==
    LET items == ItemsOf(f)
    IN  \/ Len(items) = 1 /\ ~IsPart(items[1])
        \/ /\ Len(items) >= 1
           /\ \A i \in DOMAIN items :
                 IsPart(items[i]) /\ items[i]._multipartId = items[1]._multipartId

\* C10: once a filing whose directory page yields N >= 1 document URLs has no
\* request left, and no fetch or extraction of it failed, it has gone through
\* exactly N Extracting steps, one per document URL in the order of the
\* directory page, and it has been persisted exactly once, as one whole record
\* or as one set of parts.
C10_AssemblyCompletes ==
    \A f \in FilingIds :
        (Len(Resolved(f)) >= 1 /\ Settled(f) /\ AllSucceeded(f)) =>
            /\ [k \in DOMAIN ExtractingSteps(f) |-> ExtractingSteps(f)[k].request.url]
                 = Resolved(f)
            /\ PersistedOnce(f)

\* the runs of the directory handler for a filing
DirSteps(f) == SelectSeq(steps[f], LAMBDA s : s.route = "EDGAR_FILING_DIR")

\* C11: once a filing whose directory page yields no document URL has no
\* request left, the dataset holds exactly one record of it, a whole record
\* with the fields the filing was discovered with, and no run of its directory
\* handler has enqueued a request.
C11_DiscoveryOnlyRecord ==
    \A f \in FilingIds :
        (Len(Resolved(f)) = 0 /\ Settled(f)) =>
            /\ Len(ItemsOf(f)) = 1
            /\ ~IsPart(ItemsOf(f)[1])
            /\ \A key \in DOMAIN DiscoveredFiling(f) :
                  /\ key \in DOMAIN ItemsOf(f)[1]
                  /\ ItemsOf(f)[1][key] = DiscoveredFiling(f)[key]
            /\ \A k \in DOMAIN DirSteps(f) : DirSteps(f)[k].pushedRequests = <<>>

\* the links of a filing's directory page that end in .xml in any letter case
XmlLinks(f) ==
    {i \in DOMAIN dirPages[f] : dirPages[f][i].ext \in {"xml", "XML"}}

\* C12: a run of the directory handler fails in the resolver exactly when the
\* directory page has no link that ends in .xml, compared without regard to
\* letter case; otherwise the URLs it takes from the resolver (the URL of the
\* request it enqueues followed by that request's remaining URLs) are the
\* targets of exactly those links, each once, in page order.
C12_ResolverLinks ==
    \A f \in FilingIds :
        \A k \in DOMAIN DirSteps(f) :
            LET s == DirSteps(f)[k]
            IN  /\ (s.outcome = "handler_error") <=> (XmlLinks(f) = {})
                /\ s.outcome = "ok" =>
                     LET r == s.pushedRequests[1]
                         urls == <<r.url>> \o r.userData.remainingXmlUrls
                     IN  /\ Len(urls) = Cardinality(XmlLinks(f))
                         /\ \A i \in DOMAIN urls :
                               /\ urls[i].file \in XmlLinks(f)
                               /\ urls[i] = PageHrefs(f, dirPages[f])[urls[i].file]
                         /\ \A i, j \in DOMAIN urls : i < j => urls[i].file < urls[j].file

\* the directory handler has run for a page that mixes a .XML link with a link
\* that is no XML file, and for a page without any .xml link
C12_Witness ==
    /\ \E f \in FilingIds :
          /\ DirSteps(f) # <<>>
          /\ \E i, j \in DOMAIN dirPages[f] :
                dirPages[f][i].ext = "XML" /\ dirPages[f][j].ext = "htm"
    /\ \E f \in FilingIds :
          /\ DirSteps(f) # <<>>
          /\ DirSteps(f)[1].outcome = "handler_error"

\* the runs of the XML handler that reached its end with no URL remaining, so
\* that they wrote the finished entry
WritingSteps(f) ==
    SelectSeq(steps[f], LAMBDA s : /\ IsXmlStep(s) /\ s.outcome = "ok"
                                   /\ s.request.userData.remainingXmlUrls = <<>>)

\* the entry such a run has built from the request it was given
EntryOf(s) ==
    LET doc == DocAt(dirPages, s.request.url)
    IN  Spread(Spread(s.request.userData.filing, DataToAdd(doc)),
               [xmlUrls |-> Append(s.request.userData.xmlUrls,
                                   VisitedDoc(router, s.request.url, doc))])

WroteParts(s) == \E i \in DOMAIN s.pushedData : IsPart(s.pushedData[i])

\* C14: the parts one run of the XML handler writes for an entry all carry the
\* same _multipartId, the i-th part written has _partIndex i-1, and each part's
\* slice starts where the slice of the part before it ended, the first at 0:
\* a slice that was retried with a smaller size took no index and no content.
C14_PartIndices ==
    \A f \in FilingIds :
        \A k \in DOMAIN WritingSteps(f) :
            LET parts == WritingSteps(f)[k].pushedData
            IN  WroteParts(WritingSteps(f)[k]) =>
                  \A i \in DOMAIN parts :
                      /\ IsPart(parts[i])
                      /\ parts[i]._multipartId = parts[1]._multipartId
                      /\ parts[i]._partIndex = i - 1
                      /\ parts[i]._partData.start
                           = (IF i = 1 THEN 0 ELSE parts[i - 1]._partData.end)
                      /\ parts[i]._partData.start < parts[i]._partData.end

\* an entry has been written in three parts or more, each shorter than the
\* first slice size tried
C14_Witness ==
    \E f \in FilingIds :
        \E k \in DOMAIN WritingSteps(f) :
            LET parts == WritingSteps(f)[k].pushedData
            IN  /\ WroteParts(WritingSteps(f)[k])
                /\ Len(parts) >= 3
                /\ \A i \in DOMAIN parts :
                      parts[i]._partData.end - parts[i]._partData.start < origLimitSize

\* C15: JSON.stringify of every part in the dataset - _multipartId, _partIndex
\* and the escaped slice together - is at most 9,000,000 characters long.
C15_PartFitsCeiling ==
    \A i \in DOMAIN dataset :
        IsPart(dataset[i]) =>
            PartLength(dataset[i], Stringify(dataset[i]._partData.json).quoteEvery)
              <= 9000000

\* the dataset holds a part whose slice had to be shrunk at least three times
\* to fit
C15_Witness ==
    \E i \in DOMAIN dataset :
        /\ IsPart(dataset[i])
        /\ dataset[i]._partIndex = 0
        /\ dataset[i]._partData.end - dataset[i]._partData.start
             <= origLimitSize - 3 * limitDecrease

\* C16: a run of the XML handler that writes the finished entry hands pushData
\* the entry itself and nothing else when JSON.stringify(entry).length is at
\* most 9,000,000, and parts only, at least one, when it is longer.
C16_WholeOrChunked ==
    \A f \in FilingIds :
        \A k \in DOMAIN WritingSteps(f) :
            LET s == WritingSteps(f)[k]
            IN  IF Stringify(EntryOf(s)).length <= 9000000
                THEN s.pushedData = <<EntryOf(s)>> /\ ~IsPart(EntryOf(s))
                ELSE /\ s.pushedData # <<>>
                     /\ \A i \in DOMAIN s.pushedData : IsPart(s.pushedData[i])

\* ---------------------------------------------------------------------------
\* Consolidation: files of the dataset directory
\* ---------------------------------------------------------------------------
\* A file is either the JSON.stringify of a value, as the dataset sink and
\* fsp.writeFile(..., JSON.stringify(...)) write it, or a text built by
\* fsp.appendFile from slices of serialisations. A text is the sequence of its
\* maximal runs of consecutive characters of one serialisation.
JsonFile(data) == [kind |-> "json", data |-> data]
TextFile(text) == [kind |-> "text", text |-> text]

\* text + slice
Concat(text, slice) ==
    IF slice.start >= slice.end THEN text
    ELSE IF /\ text # <<>>
            /\ text[Len(text)].json = slice.json
            /\ text[Len(text)].end = slice.start
         THEN [text EXCEPT ![Len(text)].end = slice.end]
         ELSE Append(text, slice)

\* the whole of JSON.stringify(value) as a text
TextOf(value) == << Slice(Stringify(value), 0, Stringify(value).length) >>

\* safeJsonParse: a text parses when it is the whole serialisation of a value
safeJsonParse(content) ==
    IF content.kind = "json" THEN [data |-> <<content.data>>, err |-> FALSE]
    ELSE IF Len(content.text) = 1 /\ content.text = TextOf(content.text[1].json)
         THEN [data |-> <<content.text[1].json>>, err |-> FALSE]
         ELSE [data |-> <<>>, err |-> TRUE]

\* fileContent.includes('_multipartId')
IncludesMultipartId(content) == content.kind = "json" /\ IsPart(content.data)

\* path.join(datasetDir, `${multipartId}.json`); the sink names its files by
\* the numbers 1, 2, ...
MergedFileName(multipartId) == 1000 + multipartId

\* fsp.appendFile(name, slice)
AppendFile(d, name, slice) ==
    [n \in (DOMAIN d) \cup {name} |->
        IF n # name THEN d[n]
        ELSE TextFile(Concat(IF name \in DOMAIN d THEN d[name].text ELSE <<>>, slice))]

\* fsp.writeFile(name, JSON.stringify(data))
WriteFile(d, name, data) ==
    [n \in (DOMAIN d) \cup {name} |-> IF n = name THEN JsonFile(data) ELSE d[n]]

\* fsp.unlink(name)
Unlink(d, name) == [n \in (DOMAIN d) \ {name} |-> d[n]]

RECURSIVE Ascending(_)
Ascending(names) ==
    IF names = {} THEN <<>>
    ELSE LET least == CHOOSE n \in names : \A x \in names : n <= x
         IN  <<least>> \o Ascending(names \ {least})

Reverse(s) == [i \in 1..Len(s) |-> s[Len(s) + 1 - i]]

\* loadDataset: the names readdir returns
loadDataset(d, order) ==
    IF order = "ascending" THEN Ascending(DOMAIN d) ELSE Reverse(Ascending(DOMAIN d))

\* sortedParts: parts.slice().sort(by partIndex), a stable insertion sort
RECURSIVE SortParts(_)
SortParts(parts) ==
    IF parts = <<>> THEN <<>>
    ELSE LET rest == SortParts(SubSeq(parts, 1, Len(parts) - 1))
             last == parts[Len(parts)]
             before == SelectSeq(rest, LAMBDA p : ~(p.partIndex > last.partIndex))
             after == SelectSeq(rest, LAMBDA p : p.partIndex > last.partIndex)
         IN  before \o <<last>> \o after

\* ---------------------------------------------------------------------------
\* Consolidation: datasets to consolidate
\* ---------------------------------------------------------------------------
\* a finished entry of the crawler with the fields the passes look at
FilingRecord(externalId, fileNumber, reportDate, amendmentType, table) ==
    [externalId |-> externalId, directoryUrl |-> DirUrl(externalId),
     report_date |-> reportDate, file_number |-> fileNumber,
     amendment_type |-> amendmentType, holdings |-> table, xmlUrls |-> <<>>]

SmallTable == CHOOSE h \in HoldingsTables : h.count = 5

\* two entries longer than the ceiling, as the XML handler wrote them in parts
ChunkedRecord(multipartId) ==
    IF multipartId = 1
    THEN FilingRecord(8, "028-1", 1, "",
                      CHOOSE h \in HoldingsTables : h.count = 30000)
    ELSE FilingRecord(9, "028-2", 2, "restatement",
                      CHOOSE h \in HoldingsTables : h.count = 60000)

PartsOf(multipartId) == PushedData(ChunkedRecord(multipartId), multipartId)

\* the part files of an entry that are in the directory: all, none, or all
\* but one
PartSubsets(multipartId) ==
    {S \in SUBSET DOMAIN PartsOf(multipartId) :
        S = {} \/ Cardinality(S) >= Len(PartsOf(multipartId)) - 1}

\* the files whose positions are in S, in the order of s
RECURSIVE Pick(_, _, _)
Pick(s, S, i) ==
    IF i > Len(s) THEN <<>>
    ELSE (IF i \in S THEN <<s[i]>> ELSE <<>>) \o Pick(s, S, i + 1)

\* the directory the sink has written: the whole records of file number
\* 028-1, then the parts of the two long entries
DatasetDir(versions, S1, S2) ==
    LET items == [i \in DOMAIN versions |->
                     FilingRecord(i, "028-1", versions[i][1], versions[i][2], SmallTable)]
                 \o Pick(PartsOf(1), S1, 1) \o Pick(PartsOf(2), S2, 1)
    IN  [n \in DOMAIN items |-> JsonFile(items[n])]

InitMerge ==
    /\ \E nv \in 0..MaxVersions :
          \E versions \in [1..nv -> {1, 2} \X {"", "restatement"}] :
             \E S1 \in PartSubsets(1), S2 \in PartSubsets(2) :
                dir = DatasetDir(versions, S1, S2)
    /\ readdirOrder \in {"ascending", "descending"}
    /\ mpc = "mergePartialFiles"
    /\ run = 1
    /\ datasetFiles = <<>>
    /\ partialFiles = <<>>
    /\ groupIdx = 0
    /\ partIdx = 0
    /\ amendedFilings = <<>>
    /\ filingIdToFilename = <<>>
    /\ thrown = ""
    /\ firstRun = <<>>
    /\ SeriesIdle
    /\ CrawlIdle
    /\ DiscoveryIdle

\* ---------------------------------------------------------------------------
\* Consolidation: mergePartialFiles
\* ---------------------------------------------------------------------------
\* groups[key].push(item), the groups in the order their keys were first set
GroupPush(groups, key, item) ==
    IF \E i \in DOMAIN groups : groups[i].key = key
    THEN [i \in DOMAIN groups |->
             IF groups[i].key = key
             THEN [groups[i] EXCEPT !.items = Append(@, item)]
             ELSE groups[i]]
    ELSE Append(groups, [key |-> key, items |-> <<item>>])

\* the two checks on the fields of a part file
InvalidPart(data) == data._multipartId = 0 \/ data._partIndex < 0

\* the for loop that finds the part files
RECURSIVE CollectPartialFiles(_, _, _, _)
CollectPartialFiles(d, files, i, acc) ==
    IF i > Len(files) THEN [threw |-> FALSE, partialFiles |-> acc]
    ELSE LET filepath == files[i]
             fileContent == d[filepath]
         IN  IF ~IncludesMultipartId(fileContent)
             THEN CollectPartialFiles(d, files, i + 1, acc)
             ELSE LET data == safeJsonParse(fileContent).data[1]
                  IN  IF InvalidPart(data) THEN [threw |-> TRUE, partialFiles |-> acc]
                      ELSE CollectPartialFiles(d, files, i + 1,
                               GroupPush(acc, data._multipartId,
                                         [filepath |-> filepath,
                                          partIndex |-> data._partIndex]))

\* the position after the group at position g of the merge loop
AfterGroup(g) ==
    IF g < Len(partialFiles) THEN "mergeParts" ELSE "mergeAmendmentFiles"

Verified_Always(mergedContent) == TRUE

\* JSON.parse(mergedContent) returns
Verified(mergedContent) == ~safeJsonParse(mergedContent).err

\* loadDataset and the loop that finds the part files
FindPartialFiles ==
    /\ mpc = "mergePartialFiles"
    /\ LET files == loadDataset(dir, readdirOrder)
           found == CollectPartialFiles(dir, files, 1, <<>>)
       IN  /\ datasetFiles' = files
           /\ partialFiles' = found.partialFiles
           /\ IF found.threw
              THEN /\ mpc' = "failed"
                   /\ thrown' = "Error"
              ELSE /\ mpc' = IF found.partialFiles = <<>>
                             THEN "mergeAmendmentFiles" ELSE "mergeParts"
                   /\ thrown' = thrown
    /\ groupIdx' = 1
    /\ partIdx' = 1
    /\ UNCHANGED <<dir, run, amendedFilings, filingIdToFilename,
                   firstRun, readdirOrder>>
    /\ UNCHANGED <<seriesVars, crawlVars, discoveryVars>>

\* if (parts.length < 2) continue
SkipPartialGroup ==
    /\ mpc = "mergeParts"
    /\ Len(partialFiles[groupIdx].items) < 2
    /\ mpc' = AfterGroup(groupIdx)
    /\ groupIdx' = groupIdx + 1
    /\ UNCHANGED <<dir, run, datasetFiles, partialFiles, partIdx,
                   amendedFilings, filingIdToFilename, thrown, firstRun, readdirOrder>>
    /\ UNCHANGED <<seriesVars, crawlVars, discoveryVars>>

\* one turn of the loop that appends the parts to the merged file
AppendPart ==
    /\ mpc = "mergeParts"
    /\ Len(partialFiles[groupIdx].items) >= 2
    /\ LET multipartId == partialFiles[groupIdx].key
           sortedParts == SortParts(partialFiles[groupIdx].items)
           part == sortedParts[partIdx]
           partJson == safeJsonParse(dir[part.filepath]).data[1]
       IN  /\ dir' = AppendFile(dir, MergedFileName(multipartId), partJson._partData)
           /\ IF partIdx < Len(sortedParts)
              THEN /\ partIdx' = partIdx + 1
                   /\ mpc' = mpc
              ELSE /\ partIdx' = 1
                   /\ mpc' = "verify"
    /\ UNCHANGED <<run, datasetFiles, partialFiles, groupIdx,
                   amendedFilings, filingIdToFilename, thrown, firstRun, readdirOrder>>
    /\ UNCHANGED <<seriesVars, crawlVars, discoveryVars>>

\* JSON.parse(mergedContent)
VerifyMerged ==
    /\ mpc = "verify"
    /\ LET multipartId == partialFiles[groupIdx].key
       IN  IF Verified(dir[MergedFileName(multipartId)])
           THEN /\ mpc' = "unlink"
                /\ thrown' = thrown
           ELSE /\ mpc' = "failed"
                /\ thrown' = "SyntaxError"
    /\ UNCHANGED <<dir, run, datasetFiles, partialFiles, groupIdx, partIdx,
                   amendedFilings, filingIdToFilename, firstRun, readdirOrder>>
    /\ UNCHANGED <<seriesVars, crawlVars, discoveryVars>>

\* one turn of the loop that deletes the part files
UnlinkPart ==
    /\ mpc = "unlink"
    /\ LET sortedParts == SortParts(partialFiles[groupIdx].items)
       IN  /\ dir' = Unlink(dir, sortedParts[partIdx].filepath)
           /\ IF partIdx < Len(sortedParts)
              THEN /\ partIdx' = partIdx + 1
                   /\ mpc' = mpc
                   /\ groupIdx' = groupIdx
              ELSE /\ partIdx' = 1
                   /\ mpc' = AfterGroup(groupIdx)
                   /\ groupIdx' = groupIdx + 1
    /\ UNCHANGED <<run, datasetFiles, partialFiles,
                   amendedFilings, filingIdToFilename, thrown, firstRun, readdirOrder>>
    /\ UNCHANGED <<seriesVars, crawlVars, discoveryVars>>

\* ---------------------------------------------------------------------------
\* Consolidation: mergeAmendmentFiles
\* ---------------------------------------------------------------------------
FileNumberOf_OneGroup(fileJson) ==
    IF "file_number" \in DOMAIN fileJson THEN "028-1" ELSE "undefined"

\* fileJson.file_number, the key of a property that is not there being
\* "undefined"
FileNumberOf(fileJson) ==
    IF "file_number" \in DOMAIN fileJson THEN fileJson.file_number ELSE "undefined"

IsAmendment_Always(fileJson) == TRUE

\* if (fileJson.amendment_type)
IsAmendment(fileJson) ==
    "amendment_type" \in DOMAIN fileJson /\ fileJson.amendment_type # ""

\* the for loop that finds the amended filings, with ignoreJsonError set
RECURSIVE CollectAmendments(_, _, _, _)
CollectAmendments(d, files, i, acc) ==
    IF i > Len(files) THEN acc
    ELSE LET filepath == files[i]
             parsed == safeJsonParse(d[filepath])
         IN  IF parsed.err THEN CollectAmendments(d, files, i + 1, acc)
             ELSE LET fileJson == parsed.data[1]
                      filingId == FileNumberOf(fileJson)
                  IN  CollectAmendments(d, files, i + 1,
                          [filingIdToFilename |->
                               GroupPush(acc.filingIdToFilename, filingId, filepath),
                           amendedFilings |->
                               IF IsAmendment(fileJson)
                               THEN SetAdd(acc.amendedFilings, filingId)
                               ELSE acc.amendedFilings])

\* filingIdToFilename[filingId]
Filepaths(filingId) ==
    LET i == CHOOSE i \in DOMAIN filingIdToFilename : filingIdToFilename[i].key = filingId
    IN  filingIdToFilename[i].items

\* the loop that loads the versions of one filing
RECURSIVE LoadVersions(_, _, _)
LoadVersions(d, filepaths, i) ==
    IF i > Len(filepaths) THEN <<>>
    ELSE LET parsed == safeJsonParse(d[filepaths[i]])
         IN  (IF parsed.err THEN <<>>
              ELSE << [data |-> parsed.data[1], filepath |-> filepaths[i]] >>)
             \o LoadVersions(d, filepaths, i + 1)

\* String(n): the decimal digits of a number
RECURSIVE NumberToDigits(_)
NumberToDigits(n) ==
    IF n < 10 THEN <<n>> ELSE NumberToDigits(n \div 10) \o <<n % 10>>

\* `${report_date}_${externalId}`: a string is the sequence of its
\* characters, "_" being a character greater than every digit
SortKey(data) ==
    NumberToDigits(data.report_date) \o <<10>> \o NumberToDigits(data.externalId)

\* s > t of two strings
RECURSIVE StringGreater(_, _)
StringGreater(s, t) ==
    IF s = <<>> THEN FALSE
    ELSE IF t = <<>> THEN TRUE
    ELSE IF s[1] # t[1] THEN s[1] > t[1]
    ELSE StringGreater(Tail(s), Tail(t))

KeyGreater_OldestLast(a, b) == StringGreater(SortKey(b.data), SortKey(a.data))

\* aa > bb for the keys of two versions
KeyGreater(a, b) == StringGreater(SortKey(a.data), SortKey(b.data))

\* filings.sort(...), a stable sort, oldest first
RECURSIVE SortFilings(_)
SortFilings(filings) ==
    IF filings = <<>> THEN <<>>
    ELSE LET rest == SortFilings(SubSeq(filings, 1, Len(filings) - 1))
             last == filings[Len(filings)]
             before == SelectSeq(rest, LAMBDA f : ~KeyGreater(f, last))
             after == SelectSeq(rest, LAMBDA f : KeyGreater(f, last))
         IN  before \o <<last>> \o after

PreviousVersions_DropsOldest(filings) ==
    [i \in 1..(Len(filings) - 1) |->
        [externalId |-> filings[i + 1].data.externalId,
         report_date |-> filings[i + 1].data.report_date,
         directoryUrl |-> filings[i + 1].data.directoryUrl]]

\* filings.map(...) of the superseded versions
PreviousVersions(filings) ==
    [i \in DOMAIN filings |->
        [externalId |-> filings[i].data.externalId,
         report_date |-> filings[i].data.report_date,
         directoryUrl |-> filings[i].data.directoryUrl]]

\* the loop that deletes the superseded versions
RECURSIVE UnlinkAll(_, _, _)
UnlinkAll(d, filings, i) ==
    IF i > Len(filings) THEN d
    ELSE UnlinkAll(Unlink(d, filings[i].filepath), filings, i + 1)

SkipsFiling_Never(filepaths) == FALSE

\* if (filepaths.length < 2) continue
SkipsFiling(filepaths) == Len(filepaths) < 2

\* the body of the merge loop for the files of one filing
MergedAmendments(d, filepaths) ==
    IF SkipsFiling(filepaths) THEN d
    ELSE LET sorted == SortFilings(LoadVersions(d, filepaths, 1))
             filing == sorted[Len(sorted)]
             filings == SubSeq(sorted, 1, Len(sorted) - 1)
         IN  UnlinkAll(WriteFile(d, filing.filepath,
                                 Spread(filing.data,
                                        [previousVersions |-> PreviousVersions(filings)])),
                       filings, 1)

\* loadDataset, the loop that finds the amended filings, and the log line
\* that reads amendmentFiles[0].filingId
FindAmendments ==
    /\ mpc = "mergeAmendmentFiles"
    /\ LET files == loadDataset(dir, readdirOrder)
           found == CollectAmendments(dir, files, 1,
                        [filingIdToFilename |-> <<>>, amendedFilings |-> <<>>])
       IN  /\ datasetFiles' = files
           /\ filingIdToFilename' = found.filingIdToFilename
           /\ amendedFilings' = found.amendedFilings
           /\ IF found.amendedFilings = <<>>
              THEN /\ mpc' = "failed"
                   /\ thrown' = "TypeError"
              ELSE /\ mpc' = "mergeAmendments"
                   /\ thrown' = thrown
    /\ groupIdx' = 1
    /\ UNCHANGED <<dir, run, partialFiles, partIdx, firstRun, readdirOrder>>
    /\ UNCHANGED <<seriesVars, crawlVars, discoveryVars>>

\* one turn of the merge loop
MergeAmendment ==
    /\ mpc = "mergeAmendments"
    /\ dir' = MergedAmendments(dir, Filepaths(amendedFilings[groupIdx]))
    /\ groupIdx' = groupIdx + 1
    /\ mpc' = IF groupIdx < Len(amendedFilings) THEN mpc ELSE "done"
    /\ UNCHANGED <<run, datasetFiles, partialFiles, partIdx, amendedFilings,
                   filingIdToFilename, thrown, firstRun, readdirOrder>>
    /\ UNCHANGED <<seriesVars, crawlVars, discoveryVars>>

\* the two passes are run again over the directory they left
SecondRun ==
    /\ mpc \in {"done", "failed"}
    /\ run = 1
    /\ firstRun' = [dir |-> dir, thrown |-> thrown]
    /\ run' = 2
    /\ mpc' = "mergePartialFiles"
    /\ thrown' = ""
    /\ datasetFiles' = <<>>
    /\ partialFiles' = <<>>
    /\ groupIdx' = 0
    /\ partIdx' = 0
    /\ amendedFilings' = <<>>
    /\ filingIdToFilename' = <<>>
    /\ UNCHANGED <<dir, readdirOrder>>
    /\ UNCHANGED <<seriesVars, crawlVars, discoveryVars>>

NextMerge ==
    \/ FindPartialFiles
    \/ SkipPartialGroup
    \/ AppendPart
    \/ VerifyMerged
    \/ UnlinkPart
    \/ FindAmendments
    \/ MergeAmendment
    \/ SecondRun

SpecMerge == InitMerge /\ [][NextMerge]_vars

\* ---------------------------------------------------------------------------
\* Consolidation: properties
\* ---------------------------------------------------------------------------
MultipartIds == {1, 2}

\* the part files of one entry that are in a directory, and their indices
PartNames(d, multipartId) ==
    {n \in DOMAIN d :
        IncludesMultipartId(d[n]) /\ d[n].data._multipartId = multipartId}

PartIndices(d, multipartId) == {d[n].data._partIndex : n \in PartNames(d, multipartId)}

\* the group that the merge loop is at
CurrentGroup == partialFiles[groupIdx]

\* every part of the entry was found by the scan
AllPartsFound(group) == Len(group.items) = Len(PartsOf(group.key))

\* the file holds the serialisation of the entry that was written in parts
HoldsWholeRecord(d, multipartId) ==
    /\ MergedFileName(multipartId) \in DOMAIN d
    /\ d[MergedFileName(multipartId)] = TextFile(TextOf(ChunkedRecord(multipartId)))

MergedGroups ==
    LET passed == IF mpc = "mergeAmendmentFiles" THEN Len(partialFiles)
                  ELSE IF mpc \in {"mergeParts", "verify", "unlink"}
                          \/ thrown = "SyntaxError" THEN groupIdx - 1
                  ELSE 0
    IN  {partialFiles[i].key : i \in {j \in 1..passed : Len(partialFiles[j].items) >= 2}}

\* a part file is deleted only when the merged file of its entry is there
\* and parses
DeletesOnlyVerified ==
    \A n \in DOMAIN dir :
        (IncludesMultipartId(dir[n]) /\ n \notin DOMAIN dir')
            => /\ MergedFileName(dir[n].data._multipartId) \in DOMAIN dir
               /\ ~safeJsonParse(dir[MergedFileName(dir[n].data._multipartId)]).err

\* an entry that was merged is in the directory once, whole, and none of its
\* parts is
MergedOnce ==
    \A multipartId \in MergedGroups :
        /\ PartNames(dir, multipartId) = {}
        /\ HoldsWholeRecord(dir, multipartId)
        /\ Cardinality({n \in DOMAIN dir :
              /\ ~safeJsonParse(dir[n]).err
              /\ safeJsonParse(dir[n]).data[1] = ChunkedRecord(multipartId)}) = 1

\* C17: mergePartialFiles deletes a part file only after the merged file was
\* written and parsed, and once it has merged an entry the directory holds
\* that entry as one whole record and none of its parts.
C17_DeleteAfterVerify == [][DeletesOnlyVerified]_vars /\ []MergedOnce

\* both entries have been merged and their part files deleted
C17_Witness ==
    /\ mpc = "mergeAmendmentFiles"
    /\ run = 1
    /\ MergedGroups = MultipartIds
    /\ \A multipartId \in MultipartIds : PartNames(dir, multipartId) = {}

\* C18: when the merged file of one entry does not parse, the other entries
\* whose parts are all there are still merged.
C18_FailureIsolated ==
    thrown = "SyntaxError" =>
        \A i \in DOMAIN partialFiles :
            (i # groupIdx /\ AllPartsFound(partialFiles[i]))
                => /\ HoldsWholeRecord(dir, partialFiles[i].key)
                   /\ PartNames(dir, partialFiles[i].key) = {}

\* an entry some but not all of whose part files are in the directory, the
\* entry whose parts are being deleted apart
MissingIndex(multipartId) ==
    /\ PartIndices(dir, multipartId) # {}
    /\ PartIndices(dir, multipartId) # 0..(Len(PartsOf(multipartId)) - 1)
    /\ ~(mpc = "unlink" /\ CurrentGroup.key = multipartId)

\* C19: an entry with a missing part index is not merged, and
\* mergePartialFiles does not end without an error while there is one.
C19_MissingIndexReported ==
    \A multipartId \in MultipartIds :
        MissingIndex(multipartId)
            => /\ MergedFileName(multipartId) \notin DOMAIN dir
               /\ mpc \notin {"mergeAmendmentFiles", "mergeAmendments", "done"}

\* C20: a second run of the two passes over the directory that a first run
\* without an error left does not change the directory.
C20_Idempotent ==
    (run = 2 /\ firstRun.thrown = "") => dir = firstRun.dir

\* the second run has ended over a directory in which the first run merged
\* an entry and superseded a version
C20_Witness ==
    /\ run = 2
    /\ mpc = "done"
    /\ firstRun.thrown = ""
    /\ MergedFileName(2) \in DOMAIN dir
    /\ \E n \in DOMAIN dir :
          /\ dir[n].kind = "json"
          /\ "previousVersions" \in DOMAIN dir[n].data
          /\ dir[n].data.previousVersions # <<>>

\* ---------------------------------------------------------------------------
\* Consolidation: properties of mergeAmendmentFiles
\* ---------------------------------------------------------------------------
\* the record that a file of the directory parses to
RecordIn(d, n) == safeJsonParse(d[n]).data[1]

\* the files of one file number that are in a directory, and those of them
\* that declare an amendment type
FilesOf(d, fileNumber) ==
    {n \in DOMAIN d :
        ~safeJsonParse(d[n]).err /\ FileNumberOf(RecordIn(d, n)) = fileNumber}

\* the record has a non-empty amendment_type
DeclaresAmendment(record) ==
    "amendment_type" \in DOMAIN record /\ record.amendment_type # ""

AmendmentsOf(d, fileNumber) ==
    {n \in FilesOf(d, fileNumber) : DeclaresAmendment(RecordIn(d, n))}

FileNumbers == {"028-1", "028-2", "undefined"}

\* the merge loop is at a filing with two or more files
MergesFiling ==
    /\ mpc = "mergeAmendments"
    /\ Len(Filepaths(amendedFilings[groupIdx])) >= 2

\* the files of the filing that the merge loop is at
MergedFiles == Range(Filepaths(amendedFilings[groupIdx]))

\* the fields of a version that previousVersions keeps
VersionRef(record) ==
    [externalId |-> record.externalId, report_date |-> record.report_date,
     directoryUrl |-> record.directoryUrl]

\* C21: when the k files of a filing are merged, the file that is kept has
\* a previousVersions of k-1 entries, the (externalId, report_date,
\* directoryUrl) of each deleted file, and its other fields, holdings
\* included, are those it had before the merge.
C21_PreviousVersions ==
    [][MergesFiling =>
          \E n \in MergedFiles :
             /\ n \in DOMAIN dir'
             /\ LET kept == RecordIn(dir', n)
                    raw == RecordIn(dir, n)
                    others == MergedFiles \ {n}
                IN  /\ Len(kept.previousVersions) = Cardinality(MergedFiles) - 1
                    /\ Range(kept.previousVersions)
                           = {VersionRef(RecordIn(dir, o)) : o \in others}
                    /\ Cardinality(Range(kept.previousVersions)) = Cardinality(others)
                    /\ (DOMAIN kept) \ {"previousVersions"}
                           = (DOMAIN raw) \ {"previousVersions"}
                    /\ \A k \in (DOMAIN raw) \ {"previousVersions"} : kept[k] = raw[k]
                    /\ kept.holdings = raw.holdings]_vars

\* three versions of a filing have been merged, the one that is kept being
\* the reassembled record with its 30000 holdings
C21_Witness ==
    /\ mpc = "done"
    /\ run = 1
    /\ MergedFileName(1) \in DOMAIN dir
    /\ dir[MergedFileName(1)].kind = "json"
    /\ Len(dir[MergedFileName(1)].data.previousVersions) = 2
    /\ dir[MergedFileName(1)].data.holdings.count = 30000

\* the pair (report date, external id) of a is greater than that of b
PairGreater(a, b) ==
    \/ a.report_date > b.report_date
    \/ a.report_date = b.report_date /\ a.externalId > b.externalId

\* C22: when the files of a filing are merged, the file that is kept is the
\* one with the greatest pair (report date, external id), and every other
\* file of the filing is deleted.
C22_KeepsNewest ==
    [][MergesFiling =>
          \E n \in MergedFiles :
             /\ \A o \in MergedFiles \ {n} :
                   /\ PairGreater(RecordIn(dir, n), RecordIn(dir, o))
                   /\ o \notin DOMAIN dir'
             /\ n \in DOMAIN dir'
             /\ RecordIn(dir', n).externalId = RecordIn(dir, n).externalId]_vars

\* of two versions of one report date the one with the greater external id
\* has been kept, readdir having listed it first
C22_Witness ==
    /\ mpc = "done"
    /\ run = 1
    /\ readdirOrder = "descending"
    /\ \E n \in DOMAIN dir :
          /\ dir[n].kind = "json"
          /\ "previousVersions" \in DOMAIN dir[n].data
          /\ Len(dir[n].data.previousVersions) = 1
          /\ dir[n].data.previousVersions[1].report_date = dir[n].data.report_date
          /\ dir[n].data.previousVersions[1].externalId < dir[n].data.externalId

\* a step of mergeAmendmentFiles changes or deletes a file of the file number
Deduplicates(fileNumber) ==
    /\ mpc \in {"mergeAmendmentFiles", "mergeAmendments"}
    /\ \E n \in FilesOf(dir, fileNumber) : n \notin DOMAIN dir' \/ dir'[n] # dir[n]

\* C23 as stated: the files of a file number are only deduplicated when more
\* than one of them declares an amendment type.
C23_Original ==
    [][\A fileNumber \in FileNumbers :
          Deduplicates(fileNumber)
              => Cardinality(AmendmentsOf(dir, fileNumber)) > 1]_vars

\* C23: the files of a file number are only deduplicated when there are two
\* or more of them and at least one declares an amendment type, and when the
\* pass has ended every file number with a file that declares an amendment
\* type has one file.
C23_DedupCondition ==
    /\ [][\A fileNumber \in FileNumbers :
             Deduplicates(fileNumber)
                 => /\ Cardinality(FilesOf(dir, fileNumber)) >= 2
                    /\ Cardinality(AmendmentsOf(dir, fileNumber)) >= 1]_vars
    /\ [](mpc = "done" =>
             \A fileNumber \in FileNumbers :
                 AmendmentsOf(dir, fileNumber) # {}
                     => Cardinality(FilesOf(dir, fileNumber)) = 1)

\* an original and its one amendment have been merged
C23_Witness ==
    /\ mpc = "done"
    /\ run = 1
    /\ Cardinality(FilesOf(dir, "028-1")) = 1
    /\ \E n \in FilesOf(dir, "028-1") :
          /\ dir[n].kind = "json"
          /\ "previousVersions" \in DOMAIN dir[n].data
          /\ Len(dir[n].data.previousVersions) = 1
          /\ dir[n].data.amendment_type # ""

\* the entry that a run of the XML handler handed to pushData, whole or in
\* parts
WrittenEntry(s) ==
    IF WroteParts(s) THEN s.pushedData[1]._partData.json ELSE s.pushedData[1]

DocTypes == {"primary_doc", "info_table", "unknown"}

\* C30: the xmlUrls of a written entry has one element for each document the
\* XML handler fetched for the filing, in the order fetched, each with the one
\* type its markers give (primary document first, then holdings table, else
\* unknown); a document of type unknown adds no field to the entry, and its
\* content is kept in its element of xmlUrls.
C30_ClassifiedOnce ==
    \A f \in FilingIds :
        \A k \in DOMAIN WritingSteps(f) :
            LET entry == WrittenEntry(WritingSteps(f)[k])
                fetched == ExtractingSteps(f)
                typed(t) == \E i \in DOMAIN entry.xmlUrls : entry.xmlUrls[i].type = t
            IN  /\ Len(entry.xmlUrls) = Len(fetched)
                /\ \A i \in DOMAIN entry.xmlUrls :
                      LET visited == entry.xmlUrls[i]
                          doc == DocAt(dirPages, visited.url)
                      IN  /\ visited.url = fetched[i].request.url
                          /\ visited.type \in DocTypes
                          /\ visited.type = DocType(doc)
                          /\ visited.type = "unknown" =>
                                /\ "content" \in DOMAIN visited
                                /\ visited.content = doc
                /\ \A i, j \in DOMAIN entry.xmlUrls :
                      i # j => entry.xmlUrls[i].url # entry.xmlUrls[j].url
                /\ DOMAIN entry \subseteq
                      (DOMAIN DiscoveredFiling(f)) \cup {"xmlUrls"}
                         \cup (IF typed("primary_doc") THEN {"report_date"} ELSE {})
                         \cup (IF typed("info_table") THEN {"holdings"} ELSE {})

\* ---------------------------------------------------------------------------
\* Discovery: strings
\* ---------------------------------------------------------------------------
\* A string is the sequence of its characters; a run of characters that no
\* operation of the client looks into ("www.sec.gov", "Company Name") is one
\* element of the sequence.

\* s.split(sep): the pieces between the occurrences of sep. The string is an
\* argument of a function, so that it is evaluated once, as the receiver of
\* a method call is
Split(s, sep) ==
    LET pieces[str \in {s}] ==
            LET at == {i \in DOMAIN str : str[i] = sep}
                nth(k) == CHOOSE p \in at : Cardinality({q \in at : q < p}) = k - 1
            IN  [k \in 1..(Cardinality(at) + 1) |->
                    SubSeq(str,
                           IF k = 1 THEN 1 ELSE nth(k - 1) + 1,
                           IF k = Cardinality(at) + 1 THEN Len(str) ELSE nth(k) - 1)]
    IN  pieces[s]

\* parts.join(sep), from the k-th part on
RECURSIVE JoinFrom(_, _, _)
JoinFrom(parts, sep, k) ==
    IF k > Len(parts) THEN <<>>
    ELSE IF k = Len(parts) THEN parts[k]
    ELSE parts[k] \o <<sep>> \o JoinFrom(parts, sep, k + 1)

\* parts.join(sep); the array is evaluated once, as Split's string is
Join(parts, sep) ==
    LET joined[array \in {parts}] == JoinFrom(array, sep, 1)
    IN  joined[parts]

\* s.replace(pattern, replacement) for a pattern of one element: the first
\* occurrence is replaced
ReplaceFirst(s, pattern, replacement) ==
    IF \A i \in DOMAIN s : s[i] # pattern THEN s
    ELSE LET i == CHOOSE i \in DOMAIN s :
                      s[i] = pattern /\ \A j \in 1..(i - 1) : s[j] # pattern
         IN  SubSeq(s, 1, i - 1) \o replacement \o SubSeq(s, i + 1, Len(s))

\* s.replace(/c/g, '')
RemoveAll(s, c) == SelectSeq(s, LAMBDA x : x # c)

\* s.replace(/pattern$/, replacement) for a pattern of one element
ReplaceAtEnd(s, pattern, replacement) ==
    IF s # <<>> /\ s[Len(s)] = pattern
    THEN SubSeq(s, 1, Len(s) - 1) \o replacement
    ELSE s

\* s.slice(from, to) and s.slice(from)
StringSlice(s, from, to) == SubSeq(s, from + 1, Min(to, Len(s)))

StringSliceFrom(s, from) == SubSeq(s, from + 1, Len(s))

\* s.padStart(n, c)
RECURSIVE PadStart(_, _, _)
PadStart(s, n, c) == IF Len(s) >= n THEN s ELSE PadStart(<<c>> \o s, n, c)

\* s.trim()
RECURSIVE Trim(_)
Trim(s) ==
    IF s = <<>> THEN s
    ELSE IF s[1] = " " THEN Trim(Tail(s))
    ELSE IF s[Len(s)] = " " THEN Trim(SubSeq(s, 1, Len(s) - 1))
    ELSE s

\* what a template literal and a missing property give
undefined == <<"undefined">>

\* ---------------------------------------------------------------------------
\* Discovery: parseSECIndexFile and parse13FFilings
\* ---------------------------------------------------------------------------
BASE_URL == <<"https:", "/", "/", "www.sec.gov">>

THIRTEEN_F_FORM_TYPES == {<<"13F-HR">>, <<"13F-HR/A">>}

\* rawLine.replace(/[^\x20-\x7E]+/g, ''): a carriage return is the one
\* character outside the range that the lines have
StripNonPrintable(rawLine) == RemoveAll(rawLine, "CR")

\* colNames.reduce(...): the column names mapped to the parts by position
Row(names, parts) ==
    [c \in Range(names) |->
        LET index == CHOOSE i \in DOMAIN names :
                         names[i] = c /\ \A j \in DOMAIN names : names[j] = c => j <= i
        IN  IF index <= Len(parts) THEN parts[index] ELSE undefined]

\* line.split(':', 1) and the key and value taken from it
MetaKey(line) == Trim(Split(line, ":")[1])

MetaValue(line) == Trim(Join(<<>>, ":"))

\* the callback of content.split('\n').forEach
ParseLine ==
    /\ idxLine < Len(idxContent)
    /\ LET rawLine == idxContent[idxLine + 1]
           line == Trim(StripNonPrintable(rawLine))
           parts == Split(line, "|")
       IN  IF line = <<>> THEN
               /\ isParsingMeta' = FALSE
               /\ UNCHANGED <<idxMeta, idxEntries, colNames>>
           ELSE IF isParsingMeta THEN
               /\ idxMeta' = [k \in (DOMAIN idxMeta) \cup {MetaKey(line)} |->
                                 IF k = MetaKey(line) THEN MetaValue(line) ELSE idxMeta[k]]
               /\ UNCHANGED <<idxEntries, colNames, isParsingMeta>>
           ELSE IF Len(parts) = 0 THEN
               UNCHANGED <<idxMeta, idxEntries, colNames, isParsingMeta>>
           ELSE IF Len(colNames) = 0 THEN
               /\ colNames' = parts
               /\ UNCHANGED <<idxMeta, idxEntries, isParsingMeta>>
           ELSE
               /\ idxEntries' = Append(idxEntries, Row(colNames, parts))
               /\ UNCHANGED <<idxMeta, colNames, isParsingMeta>>
    /\ idxLine' = idxLine + 1
    /\ UNCHANGED <<idxContent, thirteenFs>>
    /\ UNCHANGED <<feedPages, perPage, maxPages, feedOffset, feedI, feedRequested,
                   feedResults, feedPc, infoTable, holdingsOut>>
    /\ UNCHANGED <<seriesVars, crawlVars, mergeVars>>

\* paddedCik
paddedCik(cik) == PadStart(cik, 10, "0")

\* secIndexUrl
secIndexUrl(externalId, directoryUrl) ==
    LET finalPath == Join(<<StringSlice(externalId, 0, 10),
                            StringSlice(externalId, 10, 12),
                            StringSliceFrom(externalId, 12)>>, "-")
        fullSubmissionUrl == ReplaceAtEnd(directoryUrl, "/", <<>>)
                                \o <<"/">> \o finalPath \o <<".txt">>
    IN  ReplaceAtEnd(fullSubmissionUrl, ".txt", <<"-index.html">>)

\* entry[colName]
Cell(entry, colName) == IF <<colName>> \in DOMAIN entry THEN entry[<<colName>>] ELSE undefined

IsThirteenF_OriginalOnly(formType) == formType = <<"13F-HR">>

\* THIRTEEN_F_FORM_TYPES.includes(formType)
IsThirteenF(formType) == formType \in THIRTEEN_F_FORM_TYPES

DirectoryUrlFrom_KeepsDashes(fullSubmissionUrl) ==
    ReplaceFirst(fullSubmissionUrl, ".txt", <<>>)

\* fullSubmissionUrl.replace('.txt', '').replace(/-/g, '')
DirectoryUrlFrom(fullSubmissionUrl) ==
    RemoveAll(ReplaceFirst(fullSubmissionUrl, ".txt", <<>>), "-")

\* the Filing that the reduce callback of parse13FFilings pushes for an entry
IndexFiling(entry) ==
    LET filename == Cell(entry, "Filename")
        fullSubmissionUrl == BASE_URL \o <<"/", "Archives", "/">> \o filename
        directoryUrl == DirectoryUrlFrom(fullSubmissionUrl)
        parts == Split(directoryUrl, "/")
        externalId == parts[Len(parts)]
    IN  [externalId |-> externalId,
         companyName |-> Cell(entry, "Company Name"),
         formType |-> Cell(entry, "Form Type"),
         cik |-> paddedCik(Cell(entry, "CIK")),
         dateFiled |-> Cell(entry, "Date Filed"),
         fullSubmissionUrl |-> fullSubmissionUrl,
         directoryUrl |-> directoryUrl,
         secIndexUrl |-> secIndexUrl(externalId, directoryUrl)]

\* entries.reduce(...) of parse13FFilings
RECURSIVE ThirteenFs(_)
ThirteenFs(rows) ==
    IF rows = <<>> THEN <<>>
    ELSE (IF IsThirteenF(Cell(rows[1], "Form Type")) THEN <<IndexFiling(rows[1])>> ELSE <<>>)
         \o ThirteenFs(Tail(rows))

\* parse13FFilings, after parseSECIndexFile has returned
Parse13FFilings ==
    /\ idxLine = Len(idxContent)
    /\ thirteenFs' = ThirteenFs(idxEntries)
    /\ idxLine' = idxLine + 1
    /\ UNCHANGED <<idxContent, idxMeta, idxEntries, colNames, isParsingMeta>>
    /\ UNCHANGED <<feedPages, perPage, maxPages, feedOffset, feedI, feedRequested,
                   feedResults, feedPc, infoTable, holdingsOut>>
    /\ UNCHANGED <<seriesVars, crawlVars, mergeVars>>

\* ---------------------------------------------------------------------------
\* Discovery: index files
\* ---------------------------------------------------------------------------
\* two submissions: the CIK of the filer's directory and the accession number
\* in its three groups of 10, 2 and 6 digits
Submissions ==
    { [cik |-> <<"1", "9", "9", "4", "4", "3", "4">>,
       name |-> "WFA Asset Management Corp",
       accession |-> << <<"0", "0", "0", "1", "9", "9", "4", "4", "3", "4">>,
                        <<"2", "4">>,
                        <<"0", "0", "0", "0", "0", "4">> >>],
      [cik |-> <<"9", "4", "5", "6", "2", "1">>,
       name |-> "NICHOLAS FINANCIAL INC",
       accession |-> << <<"0", "0", "0", "0", "9", "4", "5", "6", "2", "1">>,
                        <<"2", "3">>,
                        <<"0", "0", "0", "3", "8", "4">> >>] }

\* the accession number with its dashes
AccessionNumber(sub) == Join(sub.accession, "-")

\* the Filename column of the submission's line
Filename(sub) ==
    <<"edgar", "/", "data", "/">> \o sub.cik \o <<"/">> \o AccessionNumber(sub) \o <<".txt">>

FormTypes == {"13F-HR", "13F-HR/A", "10-Q"}

DataLine(sub, formType) ==
    Join(<<sub.cik, <<sub.name>>, <<formType>>, <<"2024-02-13">>, Filename(sub)>>, "|")

HeaderLine ==
    Join(<< <<"CIK">>, <<"Company Name">>, <<"Form Type">>, <<"Date Filed">>,
            <<"Filename">> >>, "|")

DividerLine == <<"-", "-", "-", "-">>

\* a line of blanks that ends in a carriage return
BlankLine == <<" ", "CR">>

MetaLines ==
    << <<"Description", ":", " ", "Master Index of EDGAR Dissemination Feed">>,
       <<"Cloud HTTP", ":", " ", "https", ":", "/", "/", "www.sec.gov", "/", "Archives", "/">> >>

\* a line with fewer parts than the header has columns, and one with more
ShortLine == Join(<< <<"1", "2", "3">>, <<"SHORT LINE INC">>, <<"13F-HR">> >>, "|")

LongLine ==
    DataLine(CHOOSE sub \in Submissions : sub.name = "NICHOLAS FINANCIAL INC", "13F-HR/A")
        \o <<"|", "extra">>

DataLines ==
    {DataLine(sub, formType) : sub \in Submissions, formType \in FormTypes}
        \cup {ShortLine, LongLine, BlankLine}

\* an index file: metadata, blank lines, the header row, the divider the real
\* files have, data lines, and the empty string after the last line feed
InitIndex ==
    /\ \E divider \in BOOLEAN, n \in 0..MaxLines :
          \E lines \in [1..n -> DataLines] :
             idxContent = MetaLines \o << <<>>, BlankLine >> \o <<HeaderLine>>
                             \o (IF divider THEN <<DividerLine>> ELSE <<>>)
                             \o lines \o << <<>> >>
    /\ idxLine = 0
    /\ idxMeta = <<>>
    /\ idxEntries = <<>>
    /\ colNames = <<>>
    /\ isParsingMeta = TRUE
    /\ thirteenFs = <<>>
    /\ feedPages = <<>>
    /\ perPage = 1
    /\ maxPages = 1
    /\ feedOffset = 0
    /\ feedI = 0
    /\ feedRequested = <<>>
    /\ feedResults = <<>>
    /\ feedPc = "idle"
    /\ infoTable = <<>>
    /\ holdingsOut = <<>>
    /\ SeriesIdle
    /\ CrawlIdle
    /\ MergeIdle

NextIndex ==
    \/ ParseLine
    \/ Parse13FFilings

SpecIndex == InitIndex /\ [][NextIndex]_vars

\* ---------------------------------------------------------------------------
\* Discovery: properties of the index parser and the normalizer
\* ---------------------------------------------------------------------------
\* a line with a character that is neither a blank nor a control character
NonEmpty(rawLine) == \E i \in DOMAIN rawLine : rawLine[i] \notin {" ", "CR"}

\* the position of the header row: the first non-empty line after the
\* metadata block
HeaderAt ==
    CHOOSE h \in DOMAIN idxContent :
        /\ NonEmpty(idxContent[h])
        /\ \E b \in 1..(h - 1) : ~NonEmpty(idxContent[b])
        /\ \A j \in 1..(h - 1) :
              NonEmpty(idxContent[j]) => \A b \in 1..j : NonEmpty(idxContent[b])

\* the divider row: a line of dashes
IsDivider(rawLine) == NonEmpty(rawLine) /\ \A i \in DOMAIN rawLine : rawLine[i] = "-"

\* the non-empty data lines after the header row, in file order
DataLinesOf ==
    SelectSeq(SubSeq(idxContent, HeaderAt + 1, Len(idxContent)),
              LAMBDA rawLine : NonEmpty(rawLine) /\ ~IsDivider(rawLine))

\* parseSECIndexFile and parse13FFilings have returned
IndexParsed == idxLine >= Len(idxContent)

Normalized == idxLine > Len(idxContent)

\* C26: entries has one element for each non-empty data line after the header
\* row, in file order, neither the header row nor the divider row being one,
\* and the element of a line maps the i-th column name of the header to the
\* i-th part of the line, to undefined where the line has no i-th part.
C26_OneEntryPerDataLine ==
    IndexParsed =>
        /\ Len(idxEntries) = Len(DataLinesOf)
        /\ \A k \in DOMAIN idxEntries :
              k <= Len(DataLinesOf) =>
                 LET names == Split(HeaderLine, "|")
                     parts == Split(Trim(StripNonPrintable(DataLinesOf[k])), "|")
                 IN  /\ DOMAIN idxEntries[k] = Range(names)
                     /\ \A i \in DOMAIN names :
                           idxEntries[k][names[i]]
                              = IF i <= Len(parts) THEN parts[i] ELSE undefined

\* the entries of idxEntries with an accepted form type
AcceptedRows ==
    SelectSeq(idxEntries,
              LAMBDA entry : Cell(entry, "Form Type") \in {<<"13F-HR">>, <<"13F-HR/A">>})

\* C27: parse13FFilings returns one Filing for each entry whose Form Type is
\* 13F-HR or 13F-HR/A, in the order of the entries, with the entry's form
\* type, company name and file name, and none for any other entry.
C27_AcceptedFormTypes ==
    Normalized =>
        /\ Len(thirteenFs) = Len(AcceptedRows)
        /\ \A i \in DOMAIN thirteenFs :
              i <= Len(AcceptedRows) =>
                 /\ thirteenFs[i].formType = Cell(AcceptedRows[i], "Form Type")
                 /\ thirteenFs[i].companyName = Cell(AcceptedRows[i], "Company Name")
                 /\ thirteenFs[i].fullSubmissionUrl
                       = BASE_URL \o <<"/", "Archives", "/">>
                            \o Cell(AcceptedRows[i], "Filename")

\* an index file with a 10-Q line before a 13F-HR/A line has been normalized
\* to one Filing
C27_Witness ==
    /\ Normalized
    /\ Len(idxEntries) >= 2
    /\ Len(thirteenFs) = 1
    /\ thirteenFs[1].formType = <<"13F-HR/A">>
    /\ Cell(idxEntries[Len(idxEntries) - 1], "Form Type") = <<"10-Q">>
    /\ Cell(idxEntries[Len(idxEntries)], "Form Type") = <<"13F-HR/A">>

\* ---------------------------------------------------------------------------
\* Discovery: get13FFilingsSinceDate
\* ---------------------------------------------------------------------------
\* array.slice(0, -1) and array.slice(-1)[0]
AllButLast(parts) == SubSeq(parts, 1, Len(parts) - 1)

Last(parts) == parts[Len(parts)]

\* the href of the link of a submission's entry
IndexPageHref(sub) ==
    BASE_URL \o <<"/", "Archives", "/", "edgar", "/", "data", "/">> \o sub.cik \o <<"/">>
        \o sub.accession[1] \o sub.accession[2] \o sub.accession[3] \o <<"/">>
        \o AccessionNumber(sub) \o <<"-index.htm">>

\* an <entry> of the feed: the text of <updated> as a day, the href of the
\* first <link> (undefined without one), and the term of the category that
\* is labelled "form type" (undefined without one)
FeedEntry(sub, formType, updated) ==
    [updated |-> updated, href |-> IndexPageHref(sub), term |-> <<formType>>,
     title |-> sub.name]

\* filedSince
filedSince == 2

\* the entries the feed serves: two of the shape the reader expects, one
\* that was filed before filedSince, one without a form type category, one
\* without a link, and one whose link has no directory
FeedEntries ==
    LET a == CHOOSE sub \in Submissions : sub.name = "WFA Asset Management Corp"
        b == CHOOSE sub \in Submissions : sub.name = "NICHOLAS FINANCIAL INC"
    IN  { FeedEntry(a, "13F-HR/A", 3),
          FeedEntry(b, "13F-HR", 2),
          FeedEntry(b, "13F-HR", 1),
          [FeedEntry(a, "13F-HR", 3) EXCEPT !.term = undefined],
          [FeedEntry(b, "13F-HR", 3) EXCEPT !.href = undefined],
          [FeedEntry(b, "13F-HR/A", 3) EXCEPT !.href = <<"index.htm">>] }

\* submissionUrl?.split('/').slice(0, -1).join('/')
DirectoryUrlOf(submissionUrl) ==
    IF submissionUrl = undefined THEN undefined
    ELSE Join(AllButLast(Split(submissionUrl, "/")), "/")

\* the three throws of the forEach callback
ThrowsOn(entry) ==
    LET directoryUrl == DirectoryUrlOf(entry.href)
    IN  \/ directoryUrl = undefined
        \/ directoryUrl = <<>>
        \/ Last(Split(directoryUrl, "/")) = <<>>
        \/ entry.term = undefined
        \/ entry.term = <<>>

\* if (dateFiled < filedSince) return
TooOld(entry) == entry.updated < filedSince

\* the Filing that the forEach callback pushes for an entry; directoryUrl is
\* a const of the callback, computed once
FeedFiling(entry) ==
    LET filing[directoryUrl \in {DirectoryUrlOf(entry.href)}] ==
            LET submissionId == Last(Split(directoryUrl, "/"))
                submissionIdFormatted ==
                    StringSlice(submissionId, 0, 10) \o <<"-">>
                        \o StringSlice(submissionId, 10, 12)
                        \o <<"-">> \o StringSliceFrom(submissionId, 12)
                submissionUrlRoot == Join(AllButLast(Split(directoryUrl, "/")), "/")
                fullSubmissionUrl ==
                    submissionUrlRoot \o <<"/">> \o submissionIdFormatted \o <<".txt">>
                externalId == Last(Split(directoryUrl, "/"))
                segments == Split(directoryUrl, "/")
            IN  [externalId |-> externalId,
                 companyName |-> <<entry.title>>,
                 formType |-> entry.term,
                 cik |-> paddedCik(segments[Len(segments) - 1]),
                 dateFiled |-> entry.updated,
                 directoryUrl |-> directoryUrl,
                 fullSubmissionUrl |-> fullSubmissionUrl,
                 secIndexUrl |-> secIndexUrl(externalId, directoryUrl)]
    IN  filing[DirectoryUrlOf(entry.href)]

\* entries.forEach(...): the results after the entries of a page, and whether
\* the callback threw
RECURSIVE ForEachEntry(_, _)
ForEachEntry(entries, acc) ==
    IF entries = <<>> THEN [threw |-> FALSE, results |-> acc]
    ELSE IF TooOld(entries[1]) THEN ForEachEntry(Tail(entries), acc)
    ELSE IF ThrowsOn(entries[1]) THEN [threw |-> TRUE, results |-> acc]
    ELSE ForEachEntry(Tail(entries), Append(acc, FeedFiling(entries[1])))

\* what the feed answers to count and start
Page(start, count) == SubSeq(feedPages, start + 1, Min(start + count, Len(feedPages)))

ShortPage_Never(entries) == FALSE

\* if (entries.length < perPage) break
ShortPage(entries) == Len(entries) < perPage

\* one turn of the for loop; the loop is left, and results returned, after a
\* short page or when i reaches maxPages
FetchPage ==
    /\ feedPc = "loop"
    /\ feedI < maxPages
    /\ LET entries == Page(feedOffset, perPage)
           each == ForEachEntry(entries, feedResults)
           goesOn == ~each.threw /\ ~ShortPage(entries)
       IN  /\ feedRequested' = Append(feedRequested, feedOffset)
           /\ feedResults' = each.results
           /\ feedOffset' = IF goesOn THEN feedOffset + perPage ELSE feedOffset
           /\ feedI' = IF goesOn THEN feedI + 1 ELSE feedI
           /\ feedPc' = IF each.threw THEN "thrown"
                        ELSE IF goesOn /\ feedI + 1 < maxPages THEN "loop"
                        ELSE "returned"
    /\ UNCHANGED <<feedPages, perPage, maxPages>>
    /\ UNCHANGED <<idxContent, idxLine, idxMeta, idxEntries, colNames, isParsingMeta,
                   thirteenFs, infoTable, holdingsOut>>
    /\ UNCHANGED <<seriesVars, crawlVars, mergeVars>>

InitFeed ==
    /\ \E n \in 0..MaxFeed : feedPages \in [1..n -> FeedEntries]
    /\ perPage \in 1..MaxPerPage
    /\ maxPages \in 1..MaxMaxPages
    /\ feedOffset = 0
    /\ feedI = 0
    /\ feedRequested = <<>>
    /\ feedResults = <<>>
    /\ feedPc = "loop"
    /\ idxContent = <<>>
    /\ idxLine = 0
    /\ idxMeta = <<>>
    /\ idxEntries = <<>>
    /\ colNames = <<>>
    /\ isParsingMeta = TRUE
    /\ thirteenFs = <<>>
    /\ infoTable = <<>>
    /\ holdingsOut = <<>>
    /\ SeriesIdle
    /\ CrawlIdle
    /\ MergeIdle

NextFeed == FetchPage

SpecFeed == InitFeed /\ [][NextFeed]_vars

\* await this.httpClient.get(...): the request of a turn of the loop, which
\* is what a step of FetchPage adds to feedRequested
AwaitedRequest ==
    /\ feedPc = "loop"
    /\ feedI < maxPages
    /\ feedRequested' = Append(feedRequested, feedOffset)

\* the loop is not suspended for ever at an awaited response
SpecFeedFair == SpecFeed /\ WF_feedRequested(AwaitedRequest)

\* ---------------------------------------------------------------------------
\* Discovery: properties of the feed reader
\* ---------------------------------------------------------------------------
\* the entries of the pages asked for so far, in feed order
EntriesRead ==
    SubSeq(feedPages, 1, Min(Len(feedRequested) * perPage, Len(feedPages)))

\* the Filings of the entries read that were filed since filedSince
FilingsRead ==
    LET recent == SelectSeq(EntriesRead, LAMBDA entry : ~(entry.updated < filedSince))
    IN  [i \in DOMAIN recent |-> FeedFiling(recent[i])]

\* the page asked for at an offset came back with perPage entries
FullPage(start) == Len(Page(start, perPage)) = perPage

FeedEnded == feedPc \in {"returned", "thrown"}

\* the offsets asked for are 0, perPage, 2*perPage, ..., at most maxPages of
\* them, and every page but the last asked for was full
PagesInOrder ==
    /\ Len(feedRequested) <= maxPages
    /\ \A k \in DOMAIN feedRequested :
          /\ feedRequested[k] = (k - 1) * perPage
          /\ k < Len(feedRequested) => FullPage(feedRequested[k])

\* the reader goes on after a full page below maxPages, and returns after a
\* short page or the last page allowed with the Filings of every page read
StopsWhenDue ==
    /\ (feedPc = "loop" /\ feedRequested # <<>>)
          => /\ FullPage(Last(feedRequested))
             /\ Len(feedRequested) < maxPages
    /\ feedPc = "returned"
          => /\ ~FullPage(Last(feedRequested)) \/ Len(feedRequested) = maxPages
             /\ feedResults = FilingsRead

\* C24: get13FFilingsSinceDate asks for the pages at offsets 0, perPage,
\* 2*perPage, ..., asks for no page after a page of fewer than perPage entries
\* and for no more than maxPages pages, returns the Filings of every page it
\* read, those of the short page included, and always comes to an end.
C24_Pagination == [](PagesInOrder /\ StopsWhenDue) /\ <>FeedEnded

\* the reader has returned after a full page and a short page of one entry,
\* with a Filing for each of the three entries
C24_Witness ==
    /\ feedPc = "returned"
    /\ perPage = 2
    /\ feedRequested = <<0, 2>>
    /\ Len(feedPages) = 3
    /\ Len(feedResults) = 3

\* the entry does not have the shape the reader expects
Malformed(entry) ==
    \/ entry.term = undefined
    \/ entry.href = undefined
    \/ \A i \in DOMAIN entry.href : entry.href[i] # "/"

\* C25: an entry without a form type category or without a directory URL
\* does not end the reader: the reader returns, with the Filings of the other
\* entries of the pages it read.
C25_MalformedEntrySkipped ==
    /\ feedPc # "thrown"
    /\ feedPc = "returned" =>
          LET good == SelectSeq(EntriesRead,
                                LAMBDA entry : ~Malformed(entry)
                                               /\ ~(entry.updated < filedSince))
          IN  feedResults = [i \in DOMAIN good |-> FeedFiling(good[i])]

\* externalId.slice(0, 10)-slice(10, 12)-slice(12): the 10-2-6 dashes put back
Redashed(externalId) ==
    StringSlice(externalId, 0, 10) \o <<"-">> \o StringSlice(externalId, 10, 12)
        \o <<"-">> \o StringSliceFrom(externalId, 12)

\* the submission that a Filing of the index file is of
IsOf(filing, sub) ==
    filing.fullSubmissionUrl = BASE_URL \o <<"/", "Archives", "/">> \o Filename(sub)

\* C28: the Filing that parse13FFilings derives from the index line of a
\* submission and the Filing that get13FFilingsSinceDate derives from the feed
\* entry of the same submission have the same externalId, directoryUrl and
\* secIndexUrl, and the externalId with its dashes put back is the accession
\* number of the submission.
C28_SameFromBothSources ==
    Normalized =>
        \A i \in DOMAIN thirteenFs :
            \A sub \in Submissions :
                IsOf(thirteenFs[i], sub) =>
                    LET fromFeed == FeedFiling(FeedEntry(sub, "13F-HR", filedSince))
                    IN  /\ thirteenFs[i].externalId = fromFeed.externalId
                        /\ thirteenFs[i].directoryUrl = fromFeed.directoryUrl
                        /\ thirteenFs[i].secIndexUrl = fromFeed.secIndexUrl
                        /\ Redashed(thirteenFs[i].externalId) = AccessionNumber(sub)
                        /\ Len(thirteenFs[i].externalId) = 18

\* Filings have been derived from the index lines of both submissions
C28_Witness ==
    /\ Normalized
    /\ \A sub \in Submissions : \E i \in DOMAIN thirteenFs : IsOf(thirteenFs[i], sub)

\* ---------------------------------------------------------------------------
\* Holdings: extractHoldingsFromInfoTableXml
\* ---------------------------------------------------------------------------
LowerCase == <<"a", "b", "c", "d", "e", "f", "g", "h", "i", "j", "k", "l", "m",
               "n", "o", "p", "q", "r", "s", "t", "u", "v", "w", "x", "y", "z">>

UpperCase == <<"A", "B", "C", "D", "E", "F", "G", "H", "I", "J", "K", "L", "M",
               "N", "O", "P", "Q", "R", "S", "T", "U", "V", "W", "X", "Y", "Z">>

\* s.toUpperCase()
ToUpperCase(s) ==
    [i \in DOMAIN s |->
        IF \E k \in DOMAIN LowerCase : LowerCase[k] = s[i]
        THEN UpperCase[CHOOSE k \in DOMAIN LowerCase : LowerCase[k] = s[i]]
        ELSE s[i]]

\* cusip: el.find('cusip').text().trim().toUpperCase().padStart(9, '0')
HoldingCusip(text) == PadStart(ToUpperCase(Trim(text)), 9, "0")

\* infoTables.map(...), as far as the cusip of each Holding goes
ExtractHoldings ==
    /\ infoTable # <<>>
    /\ holdingsOut = <<>>
    /\ holdingsOut' = [i \in DOMAIN infoTable |-> HoldingCusip(infoTable[i])]
    /\ UNCHANGED <<idxContent, idxLine, idxMeta, idxEntries, colNames, isParsingMeta,
                   thirteenFs, feedPages, perPage, maxPages, feedOffset, feedI,
                   feedRequested, feedResults, feedPc, infoTable>>
    /\ UNCHANGED <<seriesVars, crawlVars, mergeVars>>

\* the texts of <cusip> elements: nine characters, fewer, none, more (the
\* twelve of an ISIN), lower-case letters, blanks around
CusipTexts ==
    { <<"0", "3", "7", "8", "3", "3", "1", "0", "0">>,
      <<"3", "7", "8", "3", "3", "1", "0", "0">>,
      <<"G", "1", "1", "5", "1", "C", "1", "0", "1">>,
      <<"g", "1", "1", "5", "1", "c", "1", "0", "1">>,
      <<" ", "5", "9", "4", "9", "1", "8", "1", "0", "4", " ">>,
      <<"h", "8", "8", "1", "7", "h">>,
      <<>>,
      <<"0", "3", "7", "8", "3", "3", "1", "0", "0", "5">>,
      <<"u", "s", "0", "3", "7", "8", "3", "3", "1", "0", "0", "5">> }

InitHoldings ==
    /\ \E n \in 1..MaxHoldings : infoTable \in [1..n -> CusipTexts]
    /\ holdingsOut = <<>>
    /\ idxContent = <<>>
    /\ idxLine = 0
    /\ idxMeta = <<>>
    /\ idxEntries = <<>>
    /\ colNames = <<>>
    /\ isParsingMeta = TRUE
    /\ thirteenFs = <<>>
    /\ feedPages = <<>>
    /\ perPage = 1
    /\ maxPages = 1
    /\ feedOffset = 0
    /\ feedI = 0
    /\ feedRequested = <<>>
    /\ feedResults = <<>>
    /\ feedPc = "idle"
    /\ SeriesIdle
    /\ CrawlIdle
    /\ MergeIdle

NextHoldings == ExtractHoldings

SpecHoldings == InitHoldings /\ [][NextHoldings]_vars

\* ---------------------------------------------------------------------------
\* Holdings: properties of the extractor
\* ---------------------------------------------------------------------------
\* the Holdings of the table have been returned
HoldingsExtracted == Len(holdingsOut) = Len(infoTable) /\ infoTable # <<>>

\* no character of the string is a lower-case letter
NoLowerCase(s) == \A i \in DOMAIN s : \A k \in DOMAIN LowerCase : s[i] # LowerCase[k]

\* C29: whatever the length and case of the text of a row's cusip element,
\* the cusip of the Holding returned for the row has exactly nine characters,
\* none of them a lower-case letter
C29_CusipNineUpper ==
    HoldingsExtracted =>
        \A i \in DOMAIN holdingsOut :
            /\ Len(holdingsOut[i]) = 9
            /\ NoLowerCase(holdingsOut[i])

\* ---------------------------------------------------------------------------
\* Crawler: properties of the assembly across requests and filings
\* ---------------------------------------------------------------------------
\* the queued requests for documents of a filing; a request stays in the queue
\* while its handler runs
DocRequests(f) ==
    {i \in DOMAIN queue : queue[i].url.filing = f /\ queue[i].url.path = "file"}

\* the filing with the data of the documents at the URLs folded into it, one
\* document after the other
RECURSIVE Folded(_, _)
Folded(filing, urls) ==
    IF urls = <<>> THEN filing
    ELSE Folded(Spread(filing, DataToAdd(DocAt(dirPages, Head(urls)))), Tail(urls))

\* the position of a document's URL among the URLs resolved for its filing
PositionOf(url) ==
    CHOOSE k \in DOMAIN Resolved(url.filing) : Resolved(url.filing)[k] = url

AssembledAlone(f) ==
    LET urls == Resolved(f)
    IN  [k \in DOMAIN Folded(DiscoveredFiling(f), urls) \cup {"xmlUrls"} |->
            IF k = "xmlUrls"
            THEN [j \in DOMAIN urls |-> VisitedDoc(router, urls[j], DocAt(dirPages, urls[j]))]
            ELSE Folded(DiscoveredFiling(f), urls)[k]]

\* the slices a crawl of the filing alone writes its record in
SlicesAlone(f) ==
    LET parts == ChunkLoop(Stringify(AssembledAlone(f)), 0, 0, 0, origLimitSize)
    IN  [j \in DOMAIN parts |->
            <<parts[j]._partIndex, parts[j]._partData.start, parts[j]._partData.end>>]

\* C32: whichever way the handler runs of the filings interleave, what the
\* dataset holds of a filing is what a crawl of that filing alone writes: the
\* one record that depends on the filing's own directory page and documents
\* only, whole or in the same slices.
C32_FilingsIndependent ==
    \A f \in FilingIds :
        LET items == ItemsOf(f)
        IN  items # <<>> =>
              IF IsPart(items[1])
              THEN /\ router = "chunking"
                   /\ IsChunked(AssembledAlone(f))
                   /\ Len(items) = Len(SlicesAlone(f))
                   /\ \A j \in DOMAIN items :
                         /\ IsPart(items[j])
                         /\ items[j]._partData.json = AssembledAlone(f)
                         /\ <<items[j]._partIndex, items[j]._partData.start,
                              items[j]._partData.end>> = SlicesAlone(f)[j]
              ELSE /\ items = <<AssembledAlone(f)>>
                   /\ router = "chunking" => ~IsChunked(AssembledAlone(f))

\* both filings have been persisted, the second before the first, each from a
\* document of its own that yielded data
C32_Witness ==
    /\ \A f \in FilingIds : ItemsOf(f) # <<>> /\ Pending(f) = {}
    /\ FilingOf(dataset[1]) = 2
    /\ DataToAdd(DocAt(dirPages, Resolved(1)[1])) # DataToAdd(DocAt(dirPages, Resolved(2)[1]))
    /\ DataToAdd(DocAt(dirPages, Resolved(2)[1])) # <<>>

\* the record an item of the dataset is, or is a part of
RecordOf(item) == IF IsPart(item) THEN item._partData.json ELSE item

\* the visited documents of a record that set a field, by position
Setters(record, key) ==
    {i \in DOMAIN record["xmlUrls"] :
        key \in DOMAIN DataToAdd(DocAt(dirPages, record["xmlUrls"][i].url))}

\* C33: in a persisted record a field that visited documents set has the
\* value that the last of them yielded - the holdings of the later of two
\* holdings documents -, a field that no visited document sets has the value
\* the filing was discovered with, and no field of either kind is missing.
C33_LastWriterWins ==
    \A n \in DOMAIN dataset :
        LET record == RecordOf(dataset[n])
            discovered == DiscoveredFiling(FilingOf(dataset[n]))
        IN  /\ DOMAIN discovered \subseteq DOMAIN record
            /\ \A i \in DOMAIN record["xmlUrls"] :
                  DOMAIN DataToAdd(DocAt(dirPages, record["xmlUrls"][i].url))
                      \subseteq DOMAIN record
            /\ \A key \in (DOMAIN record) \ {"xmlUrls"} :
                  IF Setters(record, key) = {}
                  THEN key \in DOMAIN discovered /\ record[key] = discovered[key]
                  ELSE LET last == CHOOSE i \in Setters(record, key) :
                                       \A j \in Setters(record, key) : j <= i
                       IN  record[key]
                             = DataToAdd(DocAt(dirPages, record["xmlUrls"][last].url))[key]

\* a record of two holdings documents with different tables has been
\* persisted
C33_Witness ==
    \E n \in DOMAIN dataset :
        LET record == RecordOf(dataset[n])
        IN  /\ Len(record["xmlUrls"]) = 2
            /\ Setters(record, "holdings") = {1, 2}
            /\ DocAt(dirPages, record["xmlUrls"][1].url).holdings
                   # DocAt(dirPages, record["xmlUrls"][2].url).holdings

\* the runs of the XML handler for a filing that ended in an error
FailedExtractions(f) ==
    SelectSeq(steps[f], LAMBDA s : IsXmlStep(s) /\ s.outcome = "handler_error")

\* C34: a run of the XML handler in which the extraction throws hands nothing
\* to pushData and enqueues no request, nothing of the filing is persisted
\* while the failed request waits for its retry, and the request is retried
\* with the filing, visited documents and remaining URLs it was first given:
\* the document it is for is not among its visited documents.
C34_FailedStepLeavesState ==
    \A f \in FilingIds :
        /\ \A k \in DOMAIN FailedExtractions(f) :
              /\ FailedExtractions(f)[k].pushedData = <<>>
              /\ FailedExtractions(f)[k].pushedRequests = <<>>
        /\ \A i \in DocRequests(f) :
              queue[i].retryCount > 0 =>
                  /\ ItemsOf(f) = <<>>
                  /\ \E k \in DOMAIN FailedExtractions(f) :
                        /\ FailedExtractions(f)[k].request.url = queue[i].url
                        /\ FailedExtractions(f)[k].request.retryCount = 0
                        /\ FailedExtractions(f)[k].request.userData = queue[i].userData
                  /\ \A j \in DOMAIN queue[i].userData.xmlUrls :
                        queue[i].userData.xmlUrls[j].url # queue[i].url

\* ---------------------------------------------------------------------------
\* Crawler: the while loop of the chunked write, one turn at a time
\* ---------------------------------------------------------------------------
\* partData of the turn
TurnPartData ==
    PartData(1, chunkPart, Slice(chunkStr, chunkIndex, chunkIndex + chunkLimit))

\* while (contentIndex < entryStr.length)
LoopGoesOn ==
    /\ chunkStr # <<>>
    /\ chunkIndex < chunkStr.length
    /\ chunkPart < MaxParts

\* if (JSON.stringify(partData).length > origLimitSize) { actualLimitSize -= 1_000_000; continue }
ShrinkSlice ==
    /\ LoopGoesOn
    /\ PartLength(TurnPartData, chunkStr.quoteEvery) > origLimitSize
    /\ chunkLimit' = chunkLimit - limitDecrease
    /\ UNCHANGED <<chunkStr, chunkIndex, chunkPart, chunkPushed>>
    /\ UNCHANGED <<router, dirPages, queue, dataset, uuidCount, failed, steps>>
    /\ UNCHANGED <<seriesVars, mergeVars, discoveryVars>>

\* await ctx.actor.pushData(partData); contentIndex += actualLimitSize; partIndex += 1
PushPart ==
    /\ LoopGoesOn
    /\ ~(PartLength(TurnPartData, chunkStr.quoteEvery) > origLimitSize)
    /\ chunkPushed' = Append(chunkPushed, TurnPartData)
    /\ chunkIndex' = chunkIndex + chunkLimit
    /\ chunkPart' = chunkPart + 1
    /\ UNCHANGED <<chunkStr, chunkLimit>>
    /\ UNCHANGED <<router, dirPages, queue, dataset, uuidCount, failed, steps>>
    /\ UNCHANGED <<seriesVars, mergeVars, discoveryVars>>

\* how often a character of entryStr is one that JSON escapes: every
\* character (a run of quotes or backslashes), every second, every seventh,
\* one in a hundred
EscapeDensities == {1, 2, 7, 100}

\* JSON.stringify(entry).length of the entries that are written in parts
EntryLengths ==
    {origLimitSize + 1}
        \cup {1000000 * k + r : k \in 9..MaxMillions, r \in {1, 500000}}

\* if (entrySize > actualLimitSize): the loop is entered with the whole size
InitChunkLoop ==
    /\ \E n \in EntryLengths, q \in EscapeDensities :
          chunkStr = [json |-> [externalId |-> 1], length |-> n, quoteEvery |-> q]
    /\ chunkIndex = 0
    /\ chunkPart = 0
    /\ chunkLimit = origLimitSize
    /\ chunkPushed = <<>>
    /\ router = "chunking"
    /\ dirPages = <<>>
    /\ queue = <<>>
    /\ dataset = <<>>
    /\ uuidCount = 0
    /\ failed = {}
    /\ steps = <<>>
    /\ SeriesIdle
    /\ MergeIdle
    /\ DiscoveryIdle

NextChunkLoop ==
    \/ ShrinkSlice
    \/ PushPart

SpecChunkLoop == InitChunkLoop /\ [][NextChunkLoop]_vars

\* the loop body has one await, of pushData, which resolves
SpecChunkLoopFair ==
    SpecChunkLoop /\ WF_chunkLoopVars(ShrinkSlice) /\ WF_chunkLoopVars(PushPart)

\* ---------------------------------------------------------------------------
\* Crawler: properties of the loop
\* ---------------------------------------------------------------------------
\* the while condition is false: contentIndex has reached the end of entryStr
ChunkLoopLeft == chunkStr # <<>> /\ ~(chunkIndex < chunkStr.length)

\* a turn never moves contentIndex back, and a turn that writes a part moves
\* it forward
ContentIndexAdvances ==
    /\ chunkIndex' >= chunkIndex
    /\ chunkPushed' # chunkPushed => chunkIndex' > chunkIndex

\* C36: for every entry longer than 9,000,000 characters, however many of its
\* characters JSON escapes, the slice size stays positive while it is shrunk
\* by 1,000,000 a retry, every part written moves contentIndex forward, and
\* contentIndex reaches the end of the serialization: the loop is left.
C36_ChunkLoopTerminates ==
    /\ [](chunkStr # <<>> => chunkLimit > 0)
    /\ [][ContentIndexAdvances]_vars
    /\ <>ChunkLoopLeft

\* the loop has been left after the slice size was shrunk five times, for an
\* entry all of whose characters are escaped, written in five parts or more
C36_Witness ==
    /\ ChunkLoopLeft
    /\ chunkStr.quoteEvery = 1
    /\ chunkLimit = origLimitSize - 5 * limitDecrease
    /\ Len(chunkPushed) >= 5

\* ---------------------------------------------------------------------------
\* Consolidation: mergeAmendmentFiles on datasets without amendments and
\* with several report periods
\* ---------------------------------------------------------------------------
\* no record of the directory declares an amendment type
NoAmendmentDeclared(d) == \A fileNumber \in FileNumbers : AmendmentsOf(d, fileNumber) = {}

\* C38: over a directory in which no record declares an amendment type,
\* mergeAmendmentFiles does not raise an error.
C38_NoAmendmentNoError ==
    NoAmendmentDeclared(dir) => thrown # "TypeError"

\* the report dates of the files of the filing that the merge loop is at
\* which a directory holds
ReportDatesOf(d) ==
    {RecordIn(d, n).report_date : n \in MergedFiles \cap DOMAIN d}

\* C39: every file that a turn of the merge loop deletes has the report
\* date of the file that the turn keeps.
C39_SamePeriodOnly ==
    [][MergesFiling =>
          \A n \in MergedFiles :
             n \notin DOMAIN dir' => RecordIn(dir, n).report_date \in ReportDatesOf(dir')]_vars

\* ---------------------------------------------------------------------------
\* Consolidation: what the two passes leave alone
\* ---------------------------------------------------------------------------
\* the merged files of the entries that have part files in a directory
MergedFilesBeingWritten(d) ==
    {MergedFileName(multipartId) :
        multipartId \in {id \in MultipartIds : PartNames(d, id) # {}}}

\* the file is a part file, the only one of its entry, and no merged file
\* of that entry has been begun
LonePart(d, n) ==
    /\ IncludesMultipartId(d[n])
    /\ PartNames(d, d[n].data._multipartId) = {n}
    /\ MergedFileName(d[n].data._multipartId) \notin DOMAIN d

\* the file is the only one of the directory that parses to a record of its
\* file number
SoleVersion(d, n) ==
    /\ ~safeJsonParse(d[n]).err
    /\ "file_number" \in DOMAIN RecordIn(d, n)
    /\ \A o \in (DOMAIN d) \ {n} :
          (~safeJsonParse(d[o]).err /\ "file_number" \in DOMAIN RecordIn(d, o))
              => RecordIn(d, o).file_number # RecordIn(d, n).file_number

\* the file of the directory is there after the step, with the same content
LeftAlone(n) == n \in DOMAIN dir' /\ dir'[n] = dir[n]

\* a step of mergePartialFiles leaves alone every file that is not a part
\* file, the merged file it is writing excepted, and every lone part file
ReassemblyFrame ==
    mpc \in {"mergePartialFiles", "mergeParts", "verify", "unlink"} =>
        \A n \in DOMAIN dir :
            \/ (IncludesMultipartId(dir[n]) /\ ~LonePart(dir, n))
            \/ n \in MergedFilesBeingWritten(dir)
            \/ LeftAlone(n)

\* a step of mergeAmendmentFiles leaves alone every file that is the only
\* version of its file number
DeduplicationFrame ==
    mpc \in {"mergeAmendmentFiles", "mergeAmendments"} =>
        \A n \in DOMAIN dir : SoleVersion(dir, n) => LeftAlone(n)

\* C35: mergePartialFiles neither rewrites nor deletes a file that is not a
\* part of an entry it merges, and mergeAmendmentFiles neither rewrites nor
\* deletes a record whose file number has fewer than two versions.
C35_OnlyMergedGroupsChange == [][ReassemblyFrame /\ DeduplicationFrame]_vars

\* both passes have run: the first entry lost all but one of its parts and
\* the part that is left is as it was written, the second entry was merged
\* and is the only version of file number 028-2, and two versions of file
\* number 028-1 were deduplicated
C35_Witness ==
    /\ mpc = "done"
    /\ run = 1
    /\ \E n \in DOMAIN dir : LonePart(dir, n) /\ dir[n].data._multipartId = 1
    /\ MergedFileName(2) \in DOMAIN dir
    /\ SoleVersion(dir, MergedFileName(2))
    /\ RecordIn(dir, MergedFileName(2)) = ChunkedRecord(2)
    /\ \E n \in DOMAIN dir :
          /\ dir[n].kind = "json"
          /\ "previousVersions" \in DOMAIN dir[n].data
          /\ Len(dir[n].data.previousVersions) = 1

\* ---------------------------------------------------------------------------
\* Consolidation: the passes run again after an interruption or after the
\* crawler has added a version
\* ---------------------------------------------------------------------------
\* the process ends while mergePartialFiles is in its merge loop, and the
\* two passes are run again over the directory as it was left
Interrupt ==
    /\ mpc \in {"mergeParts", "verify", "unlink"}
    /\ run = 1
    /\ firstRun' = [dir |-> dir, thrown |-> "interrupted"]
    /\ run' = 2
    /\ mpc' = "mergePartialFiles"
    /\ thrown' = ""
    /\ datasetFiles' = <<>>
    /\ partialFiles' = <<>>
    /\ groupIdx' = 0
    /\ partIdx' = 0
    /\ amendedFilings' = <<>>
    /\ filingIdToFilename' = <<>>
    /\ UNCHANGED <<dir, readdirOrder>>
    /\ UNCHANGED <<seriesVars, crawlVars, discoveryVars>>

\* the name of the next file of the sink, and the external id of the next
\* filing: greater than every one written before
NextFileName == MaxVersions + Len(PartsOf(1)) + Len(PartsOf(2)) + 1
NextExternalId == MaxVersions + 1

\* after a run that ended without an error the crawler pushes one more
\* record of file number 028-1, an amendment
AddVersion ==
    /\ mpc = "done"
    /\ run = 1
    /\ thrown = ""
    /\ NextFileName \notin DOMAIN dir
    /\ \E reportDate \in {1, 2} :
          dir' = WriteFile(dir, NextFileName,
                           FilingRecord(NextExternalId, "028-1", reportDate,
                                        "restatement", SmallTable))
    /\ UNCHANGED <<mpc, run, datasetFiles, partialFiles, groupIdx, partIdx,
                   amendedFilings, filingIdToFilename, thrown, firstRun, readdirOrder>>
    /\ UNCHANGED <<seriesVars, crawlVars, discoveryVars>>

NextMergeRerun ==
    \/ FindPartialFiles
    \/ SkipPartialGroup
    \/ AppendPart
    \/ VerifyMerged
    \/ UnlinkPart
    \/ FindAmendments
    \/ MergeAmendment
    \/ SecondRun
    \/ Interrupt
    \/ AddVersion

SpecMergeRerun == InitMerge /\ [][NextMergeRerun]_vars

\* the first run was interrupted when the merged file of the entry had been
\* begun and none of the part files of any entry was missing
InterruptedWhileMerging(multipartId) ==
    /\ run = 2
    /\ firstRun.thrown = "interrupted"
    /\ MergedFileName(multipartId) \in DOMAIN firstRun.dir
    /\ \A id \in MultipartIds :
          PartIndices(firstRun.dir, id) \in {{}, 0..(Len(PartsOf(id)) - 1)}
    /\ PartIndices(firstRun.dir, multipartId) # {}

\* mergePartialFiles has returned or thrown
ReassemblyEnded ==
    \/ mpc = "mergeAmendmentFiles"
    \/ mpc = "failed" /\ thrown # "TypeError"

\* C37: when a run was interrupted after the merged file of an entry had
\* been begun and before any of its part files was deleted, the run that
\* follows ends mergePartialFiles without an error and with the merged file
\* holding the serialisation of the entry once.
C37_InterruptedMergeResumes ==
    \A multipartId \in MultipartIds :
        (InterruptedWhileMerging(multipartId) /\ ReassemblyEnded)
            => /\ thrown = ""
               /\ HoldsWholeRecord(dir, multipartId)

\* the versions that the records of one file number list as superseded
Superseded(d, fileNumber) ==
    UNION {Range(RecordIn(d, n).previousVersions) :
              n \in {k \in FilesOf(d, fileNumber) :
                        "previousVersions" \in DOMAIN RecordIn(d, k)}}

\* C40: when the two passes have run again after a version was added, every
\* version that a record listed as superseded before that run is still
\* listed by a record of the same file number.
C40_PredecessorsKept ==
    (run = 2 /\ mpc = "done" /\ firstRun.thrown = "")
        => \A fileNumber \in FileNumbers :
              Superseded(firstRun.dir, fileNumber) \subseteq Superseded(dir, fileNumber)

====
